---- MODULE Spec2Model ----
(***************************************************************************)
(* Model of the NFL schedule simulator (src/src/lib.rs): the record        *)
(* calculator, the standings builder, the tie-break resolver (TeamPool)    *)
(* and the trial orchestrator (Season).                                    *)
(***************************************************************************)
EXTENDS Integers, Sequences, FiniteSets, Bags, TLC

VARIABLES
    \* ---- record calculator under test (Season::calculate_percent_from_tuple)
    record_tuple,       \* <<first, second>>: the two (wins, losses, ties) inputs
    win_percent,        \* results of the calls made so far, in call order
    percent_panicked,   \* TRUE once a call ended in a panic

    \* ---- Season
    teams,                          \* team_id -> [conference, division]
    actual_games,                   \* game_id -> Game (authoritative schedule)
    current_simulation_game,        \* None or <<game_id, game_result>>
    current_simulation_base_games,  \* game_id -> Game
    current_simulation_games,       \* game_id -> Game (per-trial working copy)
    current_simulation_result,      \* [team_records, division_winners, wildcard_teams]
    overall_results,                \* SimulationResultLookup -> TeamSimulationResults
    season_pc,                      \* position of the orchestrator
    sims_left,                      \* trials still to run in the current batch
    trials_run,                     \* trials of all batches started so far
    batch_sims,                     \* scenario -> sims of the batch that last initialised it
    active_batch,                   \* Some([scenario, sims]) of the batch started last
    batch_log,                      \* [scenario, sims] of every batch started, in order

    \* ---- Season::run_all_game_simulations and persistence
    sweep,              \* position of the sweep: [pc, sims, include_decided, games_left,
                        \*   game, scenarios_left]
    simulation_id,      \* Season::simulation_id: None or Some(id)
    new_rows,           \* bag of the rows insert_results puts in its statement
    failed_statements,  \* tables whose INSERT `execute` reported as failed on stdout

    \* ---- TeamPool under evaluation
    pool,               \* [pool_type, teams, tied_teams, winner, ranking]
    pool_pc,            \* position inside evaluate_division / evaluate_wildcard
    pool_iter           \* iteration of the `for _ in 0..3` loop of evaluate_wildcard

pctVars == <<record_tuple, win_percent, percent_panicked>>
seasonVars == <<teams, actual_games, current_simulation_game,
                current_simulation_base_games, current_simulation_games,
                current_simulation_result, overall_results, season_pc,
                sims_left, trials_run, batch_sims, active_batch, batch_log>>
sweepVars == <<sweep, simulation_id, new_rows, failed_statements>>
poolVars == <<pool, pool_pc, pool_iter>>
vars == <<record_tuple, win_percent, percent_panicked, teams, actual_games, current_simulation_game,
          current_simulation_base_games, current_simulation_games,
          current_simulation_result, overall_results, season_pc, sims_left,
          trials_run, batch_sims, active_batch, batch_log, sweep, simulation_id,
          new_rows, failed_statements, pool, pool_pc, pool_iter>>

----------------------------------------------------------------------------
(* Values shared by all components *)

None == "None"
HomeWin == "HomeWin"
AwayWin == "AwayWin"
Tie == "Tie"
GameResult == {HomeWin, AwayWin, Tie}

U8Max == 255
U16Max == 65535

----------------------------------------------------------------------------
(* Record calculator *)

\* Largest count enumerated exhaustively (U8Max is always enumerated as well).
MaxCount == 3

RecordCounts == (0 .. MaxCount) \cup {U8Max}
RecordTuples == RecordCounts \X RecordCounts \X RecordCounts

\* The quotient computed at lib.rs:862-868 before the conversion to u16 (0 stands
\* for the branch that skips the division).  The operands are u8 values widened
\* to u32: the largest intermediate value is 255 * 1000 + 127500, far below
\* 2^32, so the u32 operations never wrap and are written without a modulus.
percent_quotient(rt) ==
    LET wins == rt[1]
        losses == rt[2]
        ties == rt[3]
        computed_wins == (wins * 1000) + ((ties * 1000) \div 2)
        total_games == wins + losses + ties
    IN  IF total_games # 0
        THEN computed_wins \div (wins + losses + ties)
        ELSE 0

\* u16::try_from(..).unwrap() fails when the quotient does not fit 16 bits.
calculate_percent_panics(rt) == percent_quotient(rt) > U16Max

\* Off-by-rounding variant (rounds half up instead of truncating).
calculate_percent_rounding(rt) ==
    LET total_games == rt[1] + rt[2] + rt[3]
    IN  IF total_games # 0
        THEN (2 * (rt[1] * 1000 + rt[3] * 500) + total_games) \div (2 * total_games)
        ELSE 0

\* Variant that destructures the tuple as (losses, wins, ties).
calculate_percent_swapped(rt) == percent_quotient(<<rt[2], rt[1], rt[3]>>)

\* Season::calculate_percent_from_tuple
calculate_percent_from_tuple(rt) == percent_quotient(rt)

InitIdlePercent ==
    /\ record_tuple = <<<<0, 0, 0>>, <<0, 0, 0>>>>
    /\ win_percent = <<>>
    /\ percent_panicked = FALSE

\* One call of calculate_percent_from_tuple on the next input.
CalculatePercent ==
    /\ ~percent_panicked
    /\ Len(win_percent) < Len(record_tuple)
    /\ LET rt == record_tuple[Len(win_percent) + 1]
       IN  IF calculate_percent_panics(rt)
           THEN /\ percent_panicked' = TRUE
                /\ UNCHANGED win_percent
           ELSE /\ win_percent' = Append(win_percent, calculate_percent_from_tuple(rt))
                /\ UNCHANGED percent_panicked
    /\ UNCHANGED record_tuple

InitPercent ==
    /\ record_tuple \in RecordTuples \X RecordTuples
    /\ win_percent = <<>>
    /\ percent_panicked = FALSE

----------------------------------------------------------------------------
(* Data model.  Option<T> is a sequence of length at most one: <<>> is None *)
(* and <<v>> is Some(v); Game::game_result keeps the string None.           *)

Some(v) == <<v>>
IsSome(o) == Len(o) = 1
Unwrap(o) == o[1]

Min(a, b) == IF a <= b THEN a ELSE b
SetMin(S) == CHOOSE x \in S : \A y \in S : x <= y

TeamIds == DOMAIN teams

\* Game::new_from_db_row: the two flags are derived from the teams' labels.
NewGame(tms, home, away, result) ==
    [home_team |-> home,
     away_team |-> away,
     division_game |-> (tms[home].division = tms[away].division),
     conference_game |-> (tms[home].conference = tms[away].conference),
     game_result |-> result,
     is_simulated |-> FALSE]

\* Season::load_conference_division_mapping, as label -> set of team ids.
conference_mapping ==
    [c \in {teams[t].conference : t \in TeamIds} |-> {t \in TeamIds : teams[t].conference = c}]
division_mapping ==
    [d \in {teams[t].division : t \in TeamIds} |-> {t \in TeamIds : teams[t].division = d}]

\* TeamPool::get_team_division
get_team_division(team_id) ==
    CHOOSE d \in DOMAIN division_mapping : team_id \in division_mapping[d]

\* TeamRecord::new
NewTeamRecord ==
    [overall_record |-> <<0, 0, 0>>, overall_percent |-> 0,
     conference_record |-> <<0, 0, 0>>, conference_percent |-> 0,
     division_record |-> <<0, 0, 0>>, division_percent |-> 0]

\* Variant that starts a trial with a division winner already recorded.
StaleSimulationResult ==
    [team_records |-> <<>>, division_winners |-> {3}, wildcard_teams |-> {}]

\* CurrentSimulationResult::new (team_records as a function with empty domain).
NewCurrentSimulationResult ==
    [team_records |-> <<>>, division_winners |-> {}, wildcard_teams |-> {}]

\* TeamSimulationResults::new
NewTeamSimulationResults == [division_winner |-> 0, wildcard_team |-> 0]

\* SimulationResultLookup built from Season::current_simulation_game
Lookup(simulation_game, team_id) ==
    IF IsSome(simulation_game)
    THEN [game_id |-> Some(Unwrap(simulation_game)[1]),
          game_result |-> Some(Unwrap(simulation_game)[2]),
          team_id |-> team_id]
    ELSE [game_id |-> <<>>, game_result |-> <<>>, team_id |-> team_id]

----------------------------------------------------------------------------
(* Standings builder *)

\* `record.<kind>_record.<idx> += 1` for the kinds the game counts for.
IncrementRecord(tr, idx, game) ==
    [tr EXCEPT !.overall_record[idx] = @ + 1,
               !.conference_record[idx] = IF game.conference_game THEN @ + 1 ELSE @,
               !.division_record[idx] = IF game.division_game THEN @ + 1 ELSE @]

\* Variant of the standings update that forgets the away team of a tied game.
RecordGameHomeTieOnly(recs, game) ==
    IF game.game_result = HomeWin
    THEN [recs EXCEPT ![game.home_team] = IncrementRecord(@, 1, game),
                      ![game.away_team] = IncrementRecord(@, 2, game)]
    ELSE IF game.game_result = AwayWin
    THEN [recs EXCEPT ![game.away_team] = IncrementRecord(@, 1, game),
                      ![game.home_team] = IncrementRecord(@, 2, game)]
    ELSE [recs EXCEPT ![game.home_team] = IncrementRecord(@, 3, game)]

\* Body of the loop of Season::populate_records for one game with a result:
\* the winner's win, the loser's loss, or a tie for the home and the away team.
RecordGame(recs, game) ==
    IF game.game_result = HomeWin
    THEN [recs EXCEPT ![game.home_team] = IncrementRecord(@, 1, game),
                      ![game.away_team] = IncrementRecord(@, 2, game)]
    ELSE IF game.game_result = AwayWin
    THEN [recs EXCEPT ![game.away_team] = IncrementRecord(@, 1, game),
                      ![game.home_team] = IncrementRecord(@, 2, game)]
    ELSE [recs EXCEPT ![game.home_team] = IncrementRecord(@, 3, game),
                      ![game.away_team] = IncrementRecord(@, 3, game)]

\* The loop over current_simulation_games; the increments commute, so the
\* HashMap's iteration order is taken to be ascending game id.
RECURSIVE RecordGames(_, _, _)
RecordGames(recs, games, ids) ==
    IF ids = {} THEN recs
    ELSE LET g == SetMin(ids)
         IN  RecordGames(RecordGame(recs, games[g]), games, ids \ {g})

\* panic!("Game not simulated yet")
populate_records_panics(games) ==
    \E g \in DOMAIN games : games[g].game_result = None

\* Season::populate_records
populate_records(tms, games) ==
    RecordGames([t \in DOMAIN tms |-> NewTeamRecord], games, DOMAIN games)

\* Variant that leaves the percentages of the new records at 0.
calculate_percentages_skipped(recs) == recs

\* Season::calculate_percentages
calculate_percentages(recs) ==
    [t \in DOMAIN recs |->
        [recs[t] EXCEPT
            !.overall_percent = calculate_percent_from_tuple(recs[t].overall_record),
            !.conference_percent = calculate_percent_from_tuple(recs[t].conference_record),
            !.division_percent = calculate_percent_from_tuple(recs[t].division_record)]]

----------------------------------------------------------------------------
(* Tie-break resolver: the criteria of TeamPool as functions of the tied set, *)
(* the pool's games and the pool's team records.                              *)

\* Variant of working_vec without the reverse(): ascending order of percent.
RECURSIVE SortedAscending(_, _)
SortedAscending(S, pct) ==
    IF S = {} THEN <<>>
    ELSE LET m == CHOOSE x \in S : \A y \in S : pct[x] <= pct[y]
         IN  <<<<m, pct[m]>>>> \o SortedAscending(S \ {m}, pct)

\* working_vec after sort_by_key(|t| t.1) and reverse(): <<team, percent>>
\* pairs in descending order of percent.
RECURSIVE SortedReversed(_, _)
SortedReversed(S, pct) ==
    IF S = {} THEN <<>>
    ELSE LET m == CHOOSE x \in S : \A y \in S : pct[y] <= pct[x]
         IN  <<<<m, pct[m]>>>> \o SortedReversed(S \ {m}, pct)

\* The loop that inserts the leading entries equal to max_pct and breaks at the
\* first other one.
RECURSIVE LeadingTeams(_, _, _)
LeadingTeams(working_vec, i, max_pct) ==
    IF i > Len(working_vec) THEN {}
    ELSE IF working_vec[i][2] = max_pct
    THEN {working_vec[i][1]} \cup LeadingTeams(working_vec, i + 1, max_pct)
    ELSE {}

\* Variant that keeps only the first entry of the sorted vector.
KeepFirstOnly(S, pct) ==
    LET working_vec == SortedReversed(S, pct)
    IN  {working_vec[1][1]}

\* Sort, reverse, take max_pct from entry 0, keep the leading entries.
KeepMaxPercent(S, pct) ==
    LET working_vec == SortedReversed(S, pct)
    IN  LeadingTeams(working_vec, 1, working_vec[1][2])

\* Variant that reads the division percentage for "overall" and the overall
\* percentage for "division".
PercentOfDivisionFirst(records, team_id, percent_type) ==
    IF percent_type = "overall" THEN records[team_id].division_percent
    ELSE IF percent_type = "division" THEN records[team_id].overall_percent
    ELSE records[team_id].conference_percent

PercentOf(records, team_id, percent_type) ==
    IF percent_type = "overall" THEN records[team_id].overall_percent
    ELSE IF percent_type = "division" THEN records[team_id].division_percent
    ELSE records[team_id].conference_percent

\* Variant that skips the percentage criteria.
break_by_percent_skipped(tied, percent_type, records) == tied

\* TeamPool::break_by_percent
break_by_percent(tied, percent_type, records) ==
    IF Cardinality(tied) > 1
    THEN KeepMaxPercent(tied, [t \in tied |-> PercentOf(records, t, percent_type)])
    ELSE tied

\* Variant of the loop that counts every game of a tied team, whoever the
\* other team is.
RECURSIVE HeadToHeadRecordsAnyGame(_, _, _, _)
HeadToHeadRecordsAnyGame(records, tied, games, ids) ==
    IF ids = {} THEN records
    ELSE LET g == SetMin(ids)
             game == games[g]
             home == game.home_team
             away == game.away_team
             idxHome == IF game.game_result = HomeWin THEN 1
                        ELSE IF game.game_result = AwayWin THEN 2 ELSE 3
             idxAway == IF game.game_result = HomeWin THEN 2
                        ELSE IF game.game_result = AwayWin THEN 1 ELSE 3
             counted_home == IF home \in tied
                             THEN [records EXCEPT ![home][idxHome] = @ + 1]
                             ELSE records
             next == IF away \in tied
                     THEN [counted_home EXCEPT ![away][idxAway] = @ + 1]
                     ELSE counted_home
         IN  HeadToHeadRecordsAnyGame(next, tied, games, ids \ {g})

\* The loop of break_by_head_to_head over the games whose two teams are tied.
RECURSIVE HeadToHeadRecords(_, _, _, _)
HeadToHeadRecords(records, tied, games, ids) ==
    IF ids = {} THEN records
    ELSE LET g == SetMin(ids)
             game == games[g]
             home == game.home_team
             away == game.away_team
             next ==
                IF home \in tied /\ away \in tied
                THEN IF game.game_result = HomeWin
                     THEN [records EXCEPT ![home][1] = @ + 1, ![away][2] = @ + 1]
                     ELSE IF game.game_result = AwayWin
                     THEN [records EXCEPT ![home][2] = @ + 1, ![away][1] = @ + 1]
                     ELSE [records EXCEPT ![home][3] = @ + 1, ![away][3] = @ + 1]
                ELSE records
         IN  HeadToHeadRecords(next, tied, games, ids \ {g})

\* panic!("Game has no result") in break_by_head_to_head(_sweep)
head_to_head_panics(tied, games) ==
    /\ Cardinality(tied) > 1
    /\ \E g \in DOMAIN games :
          /\ games[g].home_team \in tied
          /\ games[g].away_team \in tied
          /\ games[g].game_result = None

\* Variant that keeps the best of the teams that played a head-to-head game,
\* and nobody when no such game exists.
break_by_head_to_head_played(tied, games) ==
    IF Cardinality(tied) > 1
    THEN LET records == HeadToHeadRecords([t \in tied |-> <<0, 0, 0>>], tied, games,
                                          DOMAIN games)
             played == {t \in tied : records[t] # <<0, 0, 0>>}
         IN  IF played = {} THEN {}
             ELSE KeepMaxPercent(played,
                      [t \in played |-> calculate_percent_from_tuple(records[t])])
    ELSE tied

\* Variant that skips the head-to-head criterion.
break_by_head_to_head_skipped(tied, games) == tied

\* TeamPool::break_by_head_to_head
break_by_head_to_head(tied, games) ==
    IF Cardinality(tied) > 1
    THEN LET records == HeadToHeadRecords([t \in tied |-> <<0, 0, 0>>], tied, games,
                                          DOMAIN games)
         IN  KeepMaxPercent(tied, [t \in tied |-> calculate_percent_from_tuple(records[t])])
    ELSE tied

\* TeamPool::break_by_head_to_head_sweep: new_tied_teams is computed from the
\* sweeper / swept teams and then dropped; self.tied_teams is never assigned.
break_by_head_to_head_sweep(tied, games) ==
    IF Cardinality(tied) > 1
    THEN LET records == HeadToHeadRecords([t \in tied |-> <<0, 0, 0>>], tied, games,
                                          DOMAIN games)
             sweepers == {t \in tied : records[t][2] = 0 /\ records[t][3] = 0}
             swept == {t \in tied \ sweepers : records[t][1] = 0 /\ records[t][3] = 0}
             new_tied_teams == IF sweepers # {} THEN {CHOOSE t \in sweepers : TRUE}
                               ELSE tied \ swept
         IN  tied
    ELSE tied

\* Variant of team_opponents without the else-if branch: only the away teams
\* of a tied team's home games.
TeamOpponentsHomeOnly(tied, games) ==
    [t \in tied |->
        {games[g].away_team : g \in {h \in DOMAIN games : games[h].home_team = t}}]

\* team_opponents of break_by_common_games: a game adds the away team to a tied
\* home team's opponents, and only otherwise (else if) the home team to a tied
\* away team's opponents.
TeamOpponents(tied, games) ==
    [t \in tied |->
        {games[g].away_team : g \in {h \in DOMAIN games : games[h].home_team = t}}
        \cup
        {games[g].home_team :
            g \in {h \in DOMAIN games : games[h].away_team = t
                                        /\ games[h].home_team \notin tied}}]

\* The fold of set intersections over team_opponents.
RECURSIVE IntersectAll(_, _)
IntersectAll(sets, keys) ==
    LET k == SetMin(keys)
    IN  IF keys \ {k} = {} THEN sets[k]
        ELSE sets[k] \cap IntersectAll(sets, keys \ {k})

CommonOpponents(tied, games) == IntersectAll(TeamOpponents(tied, games), tied)

\* The second loop of break_by_common_games: acc = [records, total_common_games].
RECURSIVE CommonGamesRecords(_, _, _, _, _)
CommonGamesRecords(acc, tied, common_opponents, games, ids) ==
    IF ids = {} THEN acc
    ELSE LET g == SetMin(ids)
             game == games[g]
             home == game.home_team
             away == game.away_team
             idxHome == IF game.game_result = HomeWin THEN 1
                        ELSE IF game.game_result = AwayWin THEN 2 ELSE 3
             idxAway == IF game.game_result = HomeWin THEN 2
                        ELSE IF game.game_result = AwayWin THEN 1 ELSE 3
             next ==
                IF home \in tied /\ away \in common_opponents
                THEN [records |-> [acc.records EXCEPT ![home][idxHome] = @ + 1],
                      total_common_games |-> acc.total_common_games + 1]
                ELSE IF home \in common_opponents /\ away \in tied
                THEN [records |-> [acc.records EXCEPT ![away][idxAway] = @ + 1],
                      total_common_games |-> acc.total_common_games + 1]
                ELSE acc
         IN  CommonGamesRecords(next, tied, common_opponents, games, ids \ {g})

\* panic!("Game has no result") in break_by_common_games
break_by_common_games_panics(tied, games) ==
    /\ Cardinality(tied) > 1
    /\ LET common_opponents == CommonOpponents(tied, games)
       IN  \E g \in DOMAIN games :
              /\ games[g].game_result = None
              /\ \/ games[g].home_team \in tied /\ games[g].away_team \in common_opponents
                 \/ games[g].home_team \in common_opponents /\ games[g].away_team \in tied

\* Variant that applies the criterion from min_games common games on, when
\* there is at least one.
break_by_common_games_at_least(tied, games, min_games) ==
    IF Cardinality(tied) > 1
    THEN LET common_opponents == CommonOpponents(tied, games)
             acc == CommonGamesRecords(
                        [records |-> [t \in tied |-> <<0, 0, 0>>], total_common_games |-> 0],
                        tied, common_opponents, games, DOMAIN games)
         IN  IF acc.total_common_games >= min_games /\ acc.total_common_games > 0
             THEN KeepMaxPercent(tied,
                      [t \in tied |-> calculate_percent_from_tuple(acc.records[t])])
             ELSE tied
    ELSE tied

\* TeamPool::break_by_common_games
break_by_common_games(tied, games, min_games) ==
    IF Cardinality(tied) > 1
    THEN LET common_opponents == CommonOpponents(tied, games)
             acc == CommonGamesRecords(
                        [records |-> [t \in tied |-> <<0, 0, 0>>], total_common_games |-> 0],
                        tied, common_opponents, games, DOMAIN games)
         IN  IF acc.total_common_games > min_games
             THEN KeepMaxPercent(tied,
                      [t \in tied |-> calculate_percent_from_tuple(acc.records[t])])
             ELSE tied
    ELSE tied

\* rng.gen_range(0..len) panics on an empty range.
break_by_random_panics(tied) == tied = {}

\* Variant of the random pick that draws among all teams of the pool.
break_by_random_from_pool(tied) == {{t} : t \in pool.teams}

\* Variant of the random pick that may leave the tied set as it is.
break_by_random_lazy(tied) == {{t} : t \in tied} \cup {tied}

\* Variant of the random pick that clears tied_teams and inserts nothing.
break_by_random_cleared(tied) == {{}}

\* TeamPool::break_by_random: the sets it can leave in tied_teams, one per draw.
break_by_random(tied) == {{t} : t \in tied}

\* The second gen_range of pick_two_random panics when one team is left.
pick_two_random_panics(tied) == Cardinality(tied) < 2

\* TeamPool::pick_two_random: the sets it can leave in tied_teams.
pick_two_random(tied) == {{a, b} : a \in tied, b \in tied} \ {{t} : t \in tied}

\* The first five criteria of evaluate_division applied to a tied set.
division_criteria(tied, games, records) ==
    LET t1 == break_by_percent(tied, "overall", records)
        t2 == break_by_percent(t1, "division", records)
        t3 == break_by_head_to_head(t2, games)
        t4 == break_by_common_games(t3, games, 0)
    IN  break_by_percent(t4, "conference", records)

division_criteria_panics(tied, games, records) ==
    LET t1 == break_by_percent(tied, "overall", records)
        t2 == break_by_percent(t1, "division", records)
    IN  \/ head_to_head_panics(t2, games)
        \/ break_by_common_games_panics(break_by_head_to_head(t2, games), games)

\* tied_team_divisions of break_wildcard_division_ties
TiedTeamDivisions(tied) ==
    [d \in {get_team_division(t) : t \in tied} |->
        {t \in tied : get_team_division(t) = d}]

break_wildcard_division_ties_panics(tied, games, records) ==
    /\ Cardinality(tied) > 1
    /\ \E d \in DOMAIN TiedTeamDivisions(tied) :
          /\ Cardinality(TiedTeamDivisions(tied)[d]) > 1
          /\ division_criteria_panics(TiedTeamDivisions(tied)[d], games, records)

\* Variant that draws the team of a division among its tied teams without
\* running the division cascade on them.
break_wildcard_division_ties_drawn(tied, games, records) ==
    IF Cardinality(tied) > 1
    THEN LET tied_team_divisions == TiedTeamDivisions(tied)
             picks == {f \in [DOMAIN tied_team_divisions -> tied] :
                          \A d \in DOMAIN tied_team_divisions : f[d] \in tied_team_divisions[d]}
         IN  {{f[d] : d \in DOMAIN tied_team_divisions} : f \in picks}
    ELSE {tied}

\* TeamPool::break_wildcard_division_ties: the sets it can leave in tied_teams.
\* A division with several tied teams is resolved by evaluate_division on a
\* clone of the pool (its winner is any team break_by_random can draw).
break_wildcard_division_ties(tied, games, records) ==
    IF Cardinality(tied) > 1
    THEN LET tied_team_divisions == TiedTeamDivisions(tied)
             candidates ==
                [d \in DOMAIN tied_team_divisions |->
                    IF Cardinality(tied_team_divisions[d]) > 1
                    THEN division_criteria(tied_team_divisions[d], games, records)
                    ELSE tied_team_divisions[d]]
             picks == {f \in [DOMAIN tied_team_divisions -> tied] :
                          \A d \in DOMAIN tied_team_divisions : f[d] \in candidates[d]}
         IN  {{f[d] : d \in DOMAIN tied_team_divisions} : f \in picks}
    ELSE {tied}

----------------------------------------------------------------------------
(* TeamPool as a state machine: one action per call made by evaluate_division *)
(* and evaluate_wildcard.  pool_pc names the call that runs next.             *)

Division == "Division"
Wildcard == "Wildcard"

\* TeamPool::new clones the season's trial games and team records; nothing
\* changes them while the pool is evaluated.
PoolGames == current_simulation_games
PoolRecords == current_simulation_result.team_records

InitIdlePool ==
    /\ pool = [pool_type |-> Division, teams |-> {}, tied_teams |-> {},
               winner |-> <<>>, ranking |-> <<>>]
    /\ pool_pc = "none"
    /\ pool_iter = 0

\* Variant of a call that returns normally, tied_teams untouched, where the
\* call panics.
PoolStepUnchecked(type, from, to, panics, outcomes) ==
    /\ pool.pool_type = type
    /\ pool_pc = from
    /\ \E new_tied \in (IF panics THEN {pool.tied_teams} ELSE outcomes) :
          pool' = [pool EXCEPT !.tied_teams = new_tied]
    /\ pool_pc' = to
    /\ UNCHANGED pool_iter
    /\ UNCHANGED <<pctVars, seasonVars, sweepVars>>

\* A call that replaces tied_teams by one of `outcomes`, or panics.
PoolStep(type, from, to, panics, outcomes) ==
    /\ pool.pool_type = type
    /\ pool_pc = from
    /\ IF panics
       THEN /\ pool_pc' = "panicked"
            /\ UNCHANGED pool
       ELSE /\ \E new_tied \in outcomes : pool' = [pool EXCEPT !.tied_teams = new_tied]
            /\ pool_pc' = to
    /\ UNCHANGED pool_iter
    /\ UNCHANGED <<pctVars, seasonVars, sweepVars>>

\* TeamPool::new followed by TeamPool::evaluate's dispatch on pool_type
\* (evaluate_wildcard starts with self.ranking = Some(Vec::new())).
NewPool(source_vec, pool_type) ==
    /\ pool_pc = "none"
    /\ season_pc = "divisions"
    /\ pool' = [pool_type |-> pool_type,
                teams |-> source_vec,
                tied_teams |-> source_vec,
                winner |-> <<>>,
                ranking |-> IF pool_type = Wildcard THEN Some(<<>>) ELSE <<>>]
    /\ pool_pc' = IF pool_type = Division THEN "overall" ELSE "w_overall"
    /\ pool_iter' = 0
    /\ UNCHANGED <<pctVars, seasonVars, sweepVars>>

(* evaluate_division, lib.rs:237-245 *)
DivisionOverall ==
    PoolStep(Division, "overall", "division", FALSE,
             {break_by_percent(pool.tied_teams, "overall", PoolRecords)})
DivisionDivision ==
    PoolStep(Division, "division", "head_to_head", FALSE,
             {break_by_percent(pool.tied_teams, "division", PoolRecords)})
DivisionHeadToHead ==
    PoolStep(Division, "head_to_head", "common_games",
             head_to_head_panics(pool.tied_teams, PoolGames),
             {break_by_head_to_head(pool.tied_teams, PoolGames)})
DivisionCommonGames ==
    PoolStep(Division, "common_games", "conference",
             break_by_common_games_panics(pool.tied_teams, PoolGames),
             {break_by_common_games(pool.tied_teams, PoolGames, 0)})
DivisionConference ==
    PoolStep(Division, "conference", "random", FALSE,
             {break_by_percent(pool.tied_teams, "conference", PoolRecords)})
DivisionRandom ==
    PoolStep(Division, "random", "winner",
             break_by_random_panics(pool.tied_teams),
             break_by_random(pool.tied_teams))
\* self.winner = Some(self.tied_teams.iter().next().unwrap().clone())
DivisionWinner ==
    /\ pool.pool_type = Division
    /\ pool_pc = "winner"
    /\ IF pool.tied_teams = {}
       THEN /\ pool_pc' = "panicked"
            /\ UNCHANGED pool
       ELSE /\ \E t \in pool.tied_teams : pool' = [pool EXCEPT !.winner = Some(t)]
            /\ pool_pc' = "done"
    /\ UNCHANGED pool_iter
    /\ UNCHANGED <<pctVars, seasonVars, sweepVars>>

(* evaluate_wildcard, lib.rs:247-279; the guarded calls run only while more *)
(* than two teams are tied                                                  *)
MoreThanTwo == Cardinality(pool.tied_teams) > 2

WildcardOverall ==
    PoolStep(Wildcard, "w_overall", "w_division_ties", FALSE,
             {break_by_percent(pool.tied_teams, "overall", PoolRecords)})
WildcardDivisionTies ==
    PoolStep(Wildcard, "w_division_ties", "w_sweep",
             MoreThanTwo /\ break_wildcard_division_ties_panics(pool.tied_teams, PoolGames,
                                                                 PoolRecords),
             IF MoreThanTwo
             THEN break_wildcard_division_ties(pool.tied_teams, PoolGames, PoolRecords)
             ELSE {pool.tied_teams})
WildcardSweep ==
    PoolStep(Wildcard, "w_sweep", "w_conference",
             MoreThanTwo /\ head_to_head_panics(pool.tied_teams, PoolGames),
             {IF MoreThanTwo THEN break_by_head_to_head_sweep(pool.tied_teams, PoolGames)
              ELSE pool.tied_teams})
WildcardConference ==
    PoolStep(Wildcard, "w_conference", "w_common_games", FALSE,
             {IF MoreThanTwo THEN break_by_percent(pool.tied_teams, "conference", PoolRecords)
              ELSE pool.tied_teams})
WildcardCommonGames ==
    PoolStep(Wildcard, "w_common_games", "w_pick_two",
             MoreThanTwo /\ break_by_common_games_panics(pool.tied_teams, PoolGames),
             {IF MoreThanTwo THEN break_by_common_games(pool.tied_teams, PoolGames, 4)
              ELSE pool.tied_teams})
WildcardPickTwo ==
    PoolStep(Wildcard, "w_pick_two", "w_head_to_head", FALSE,
             IF MoreThanTwo THEN pick_two_random(pool.tied_teams) ELSE {pool.tied_teams})
WildcardHeadToHead ==
    PoolStep(Wildcard, "w_head_to_head", "w_conference2",
             head_to_head_panics(pool.tied_teams, PoolGames),
             {break_by_head_to_head(pool.tied_teams, PoolGames)})
WildcardConferenceAgain ==
    PoolStep(Wildcard, "w_conference2", "w_common_games2", FALSE,
             {break_by_percent(pool.tied_teams, "conference", PoolRecords)})
WildcardCommonGamesAgain ==
    PoolStep(Wildcard, "w_common_games2", "w_random",
             break_by_common_games_panics(pool.tied_teams, PoolGames),
             {break_by_common_games(pool.tied_teams, PoolGames, 4)})
WildcardRandom ==
    PoolStep(Wildcard, "w_random", "w_rank",
             break_by_random_panics(pool.tied_teams),
             break_by_random(pool.tied_teams))
\* lib.rs:272-277: push the top team, reset tied_teams to the teams not ranked
\* yet, and go round the `for _ in 0..3` loop.
WildcardRank ==
    /\ pool.pool_type = Wildcard
    /\ pool_pc = "w_rank"
    /\ IF pool.tied_teams = {}
       THEN /\ pool_pc' = "panicked"
            /\ UNCHANGED <<pool, pool_iter>>
       ELSE /\ \E top_team \in pool.tied_teams :
                 LET ranking == Append(Unwrap(pool.ranking), top_team)
                 IN  pool' = [pool EXCEPT
                                 !.ranking = Some(ranking),
                                 !.tied_teams = pool.teams \ {ranking[i] : i \in 1 .. Len(ranking)}]
            /\ pool_iter' = pool_iter + 1
            /\ pool_pc' = IF pool_iter + 1 < 3 THEN "w_overall" ELSE "done"
    /\ UNCHANGED <<pctVars, seasonVars, sweepVars>>


----------------------------------------------------------------------------
(* Season: the trial orchestrator.  A trial is run_simulation followed by the *)
(* calls of evaluate_simulation_results, one action each.                     *)

\* Trials per batch range over 1 .. MaxSims; batches are started while the
\* trials of all batches together stay within MaxTrials.
MaxSims == 2
MaxTrials == 2

Range(seq) == {seq[i] : i \in 1 .. Len(seq)}

\* The teams one iteration of the loop of evaluate_wildcard can rank next,
\* starting from the tied set `tied` (all results are present: populate_records
\* has run on the same games).
wildcard_top_teams(tied, games, records) ==
    LET LastCriteria(t6) ==
            LET t7 == break_by_head_to_head(t6, games)
                t8 == break_by_percent(t7, "conference", records)
            IN  break_by_common_games(t8, games, 4)
        GuardedCriteria(t2) ==
            LET t3 == IF Cardinality(t2) > 2 THEN break_by_head_to_head_sweep(t2, games) ELSE t2
                t4 == IF Cardinality(t3) > 2 THEN break_by_percent(t3, "conference", records)
                      ELSE t3
                t5 == IF Cardinality(t4) > 2 THEN break_by_common_games(t4, games, 4) ELSE t4
                s6 == IF Cardinality(t5) > 2 THEN pick_two_random(t5) ELSE {t5}
            IN  UNION {LastCriteria(t6) : t6 \in s6}
        t1 == break_by_percent(tied, "overall", records)
        s2 == IF Cardinality(t1) > 2 THEN break_wildcard_division_ties(t1, games, records)
              ELSE {t1}
    IN  UNION {GuardedCriteria(t2) : t2 \in s2}

\* The rankings evaluate_wildcard can produce: `left` more iterations after `ranking`.
RECURSIVE WildcardRankings(_, _, _, _, _)
WildcardRankings(pool_teams, ranking, left, games, records) ==
    IF left = 0 THEN {ranking}
    ELSE UNION {WildcardRankings(pool_teams, Append(ranking, t), left - 1, games, records) :
                   t \in wildcard_top_teams(pool_teams \ Range(ranking), games, records)}

\* break_by_random draws from an empty range in the first iteration that starts
\* with no team left to rank.
evaluate_wildcard_panics(pool_teams) == Cardinality(pool_teams) < 3

evaluate_wildcard(pool_teams, games, records) ==
    WildcardRankings(pool_teams, <<>>, 3, games, records)

\* The winners evaluate_division can produce for a pool of `pool_teams`.
evaluate_division(pool_teams, games, records) ==
    division_criteria(pool_teams, games, records)

\* Variant that draws a result for every game, decided or not.
simulate_always(game) ==
    {[game EXCEPT !.game_result = r, !.is_simulated = TRUE] : r \in GameResult}

\* Variant that leaves every game as it is.
simulate_skipped(game) == {game}

\* Game::simulate_if_undecided: the results the two draws can produce.
simulate_if_undecided(game) ==
    IF game.game_result = None
    THEN {[game EXCEPT !.game_result = r, !.is_simulated = TRUE] : r \in GameResult}
    ELSE {game}

InitIdleSeason ==
    /\ teams = <<>>
    /\ actual_games = <<>>
    /\ current_simulation_game = <<>>
    /\ current_simulation_base_games = <<>>
    /\ current_simulation_games = <<>>
    /\ current_simulation_result = NewCurrentSimulationResult
    /\ overall_results = <<>>
    /\ season_pc = "idle"
    /\ sims_left = 0
    /\ trials_run = 0
    /\ batch_sims = <<>>
    /\ active_batch = <<>>
    /\ batch_log = <<>>

\* No sweep is running, Season::simulation_id is None and no statement was built.
InitIdleSweep ==
    /\ sweep = [pc |-> "none", sims |-> 0, include_decided |-> FALSE,
                games_left |-> {}, game |-> 0, scenarios_left |-> <<>>]
    /\ simulation_id = <<>>
    /\ new_rows = EmptyBag
    /\ failed_statements = {}

\* overall_results.insert(lookup, TeamSimulationResults::new()) for every team
InsertNewResults(results, simulation_game) ==
    LET keys == {Lookup(simulation_game, t) : t \in TeamIds}
    IN  [k \in DOMAIN results \cup keys |->
            IF k \in keys THEN NewTeamSimulationResults ELSE results[k]]

\* Season::simulate_current_state up to its loop: the unconditional keys are
\* (re)initialised; current_simulation_game and current_simulation_base_games
\* are not assigned.
StartCurrentState(sims) ==
    /\ season_pc = "idle"
    /\ sims_left = 0
    /\ overall_results' = InsertNewResults(overall_results, <<>>)
    /\ sims_left' = sims
    /\ trials_run' = trials_run + sims
    /\ batch_sims' = [k \in DOMAIN batch_sims \cup {<<>>} |->
                         IF k = <<>> THEN sims ELSE batch_sims[k]]
    /\ active_batch' = Some([scenario |-> <<>>, sims |-> sims])
    /\ batch_log' = Append(batch_log, [scenario |-> <<>>, sims |-> sims])
    /\ UNCHANGED <<teams, actual_games, current_simulation_game,
                   current_simulation_base_games, current_simulation_games,
                   current_simulation_result, season_pc>>
    /\ UNCHANGED <<pctVars, poolVars>>

\* A call of simulate_current_state made directly on the Season.
SimulateCurrentState(sims) ==
    /\ trials_run + sims <= MaxTrials
    /\ StartCurrentState(sims)
    /\ UNCHANGED sweepVars

\* Variant that forces the game on top of the previous batch's base schedule.
ForcedBaseGamesKept(game_id, game_result) ==
    [current_simulation_base_games EXCEPT ![game_id].game_result = game_result]

\* simulate_for_game: actual_games.clone(), then the forced result of game_id
ForcedBaseGames(game_id, game_result) ==
    [actual_games EXCEPT ![game_id].game_result = game_result]

\* Season::simulate_for_game up to its loop
StartForGame(game_id, game_result, sims) ==
    /\ season_pc = "idle"
    /\ sims_left = 0
    /\ current_simulation_game' = Some(<<game_id, game_result>>)
    /\ current_simulation_base_games' = ForcedBaseGames(game_id, game_result)
    /\ overall_results' = InsertNewResults(overall_results, Some(<<game_id, game_result>>))
    /\ sims_left' = sims
    /\ trials_run' = trials_run + sims
    /\ batch_sims' = [k \in DOMAIN batch_sims \cup {Some(<<game_id, game_result>>)} |->
                         IF k = Some(<<game_id, game_result>>) THEN sims ELSE batch_sims[k]]
    /\ active_batch' = Some([scenario |-> Some(<<game_id, game_result>>), sims |-> sims])
    /\ batch_log' = Append(batch_log, [scenario |-> Some(<<game_id, game_result>>),
                                       sims |-> sims])
    /\ UNCHANGED <<teams, actual_games, current_simulation_games,
                   current_simulation_result, season_pc>>
    /\ UNCHANGED <<pctVars, poolVars>>

\* A call of simulate_for_game made directly on the Season.
SimulateForGame(game_id, game_result, sims) ==
    /\ trials_run + sims <= MaxTrials
    /\ StartForGame(game_id, game_result, sims)
    /\ UNCHANGED sweepVars

\* Season::run_simulation up to the call of evaluate_simulation_results
RunSimulation ==
    /\ season_pc = "idle"
    /\ sims_left > 0
    /\ current_simulation_result' = NewCurrentSimulationResult
    /\ current_simulation_games' \in
           {games \in [DOMAIN current_simulation_base_games ->
                          UNION {simulate_if_undecided(current_simulation_base_games[g]) :
                                    g \in DOMAIN current_simulation_base_games}] :
               \A g \in DOMAIN current_simulation_base_games :
                   games[g] \in simulate_if_undecided(current_simulation_base_games[g])}
    /\ season_pc' = "evaluate"
    /\ UNCHANGED <<teams, actual_games, current_simulation_game,
                   current_simulation_base_games, overall_results, sims_left,
                   trials_run, batch_sims, active_batch, batch_log>>
    /\ UNCHANGED <<pctVars, poolVars, sweepVars>>

\* evaluate_simulation_results: populate_records, then calculate_percentages
BuildStandings ==
    /\ season_pc = "evaluate"
    /\ IF populate_records_panics(current_simulation_games)
       THEN /\ season_pc' = "panicked"
            /\ UNCHANGED current_simulation_result
       ELSE /\ current_simulation_result' =
                   [current_simulation_result EXCEPT
                       !.team_records =
                           calculate_percentages(populate_records(teams, current_simulation_games))]
            /\ season_pc' = "divisions"
    /\ UNCHANGED <<teams, actual_games, current_simulation_game,
                   current_simulation_base_games, current_simulation_games,
                   overall_results, sims_left, trials_run, batch_sims, active_batch, batch_log>>
    /\ UNCHANGED <<pctVars, poolVars, sweepVars>>

\* Season::evaluate_divisions: one Division pool per division
EvaluateDivisions ==
    /\ season_pc = "divisions"
    /\ LET winners ==
               [d \in DOMAIN division_mapping |->
                   evaluate_division(division_mapping[d], current_simulation_games,
                                     current_simulation_result.team_records)]
       IN  \E winner \in [DOMAIN division_mapping ->
                             UNION {winners[d] : d \in DOMAIN division_mapping}] :
              /\ \A d \in DOMAIN division_mapping : winner[d] \in winners[d]
              /\ current_simulation_result' =
                     [current_simulation_result EXCEPT
                         !.division_winners =
                             @ \cup {winner[d] : d \in DOMAIN division_mapping}]
    /\ season_pc' = "wildcards"
    /\ UNCHANGED <<teams, actual_games, current_simulation_game,
                   current_simulation_base_games, current_simulation_games,
                   overall_results, sims_left, trials_run, batch_sims, active_batch, batch_log>>
    /\ UNCHANGED <<pctVars, poolVars, sweepVars>>

\* Variant that keeps the division winners in the pool.
WildcardPoolTeamsAll(c) == conference_mapping[c]

\* team_ids_without_division_winners of evaluate_wildcards
WildcardPoolTeams(c) == conference_mapping[c] \ current_simulation_result.division_winners

\* Season::evaluate_wildcards: one Wildcard pool per conference
EvaluateWildcards ==
    /\ season_pc = "wildcards"
    /\ IF \E c \in DOMAIN conference_mapping : evaluate_wildcard_panics(WildcardPoolTeams(c))
       THEN /\ season_pc' = "panicked"
            /\ UNCHANGED current_simulation_result
       ELSE /\ LET rankings ==
                       [c \in DOMAIN conference_mapping |->
                           evaluate_wildcard(WildcardPoolTeams(c), current_simulation_games,
                                             current_simulation_result.team_records)]
               IN  \E ranking \in [DOMAIN conference_mapping ->
                                      UNION {rankings[c] : c \in DOMAIN conference_mapping}] :
                      /\ \A c \in DOMAIN conference_mapping : ranking[c] \in rankings[c]
                      /\ current_simulation_result' =
                             [current_simulation_result EXCEPT
                                 !.wildcard_teams =
                                     @ \cup UNION {Range(ranking[c]) :
                                                      c \in DOMAIN conference_mapping}]
            /\ season_pc' = "increment"
    /\ UNCHANGED <<teams, actual_games, current_simulation_game,
                   current_simulation_base_games, current_simulation_games,
                   overall_results, sims_left, trials_run, batch_sims, active_batch, batch_log>>
    /\ UNCHANGED <<pctVars, poolVars, sweepVars>>

\* Season::increment_overall_results: += 1 under the key of the active scenario
\* for every division winner and for every wildcard team of the trial.
increment_overall_results(results, simulation_game, result) ==
    [k \in DOMAIN results |->
        [division_winner |->
            results[k].division_winner
            + (IF \E t \in result.division_winners : k = Lookup(simulation_game, t)
               THEN 1 ELSE 0),
         wildcard_team |->
            results[k].wildcard_team
            + (IF \E t \in result.wildcard_teams : k = Lookup(simulation_game, t)
               THEN 1 ELSE 0)]]

\* panic!("Overall results not initialized properly")
increment_overall_results_panics(results, simulation_game, result) ==
    \E t \in result.division_winners \cup result.wildcard_teams :
        Lookup(simulation_game, t) \notin DOMAIN results

\* The last call of evaluate_simulation_results (increment = true); it ends
\* the trial, so the batch's loop counter goes down by one.
IncrementOverallResults ==
    /\ season_pc = "increment"
    /\ IF increment_overall_results_panics(overall_results, current_simulation_game,
                                           current_simulation_result)
       THEN /\ season_pc' = "panicked"
            /\ UNCHANGED <<overall_results, sims_left>>
       ELSE /\ overall_results' =
                   increment_overall_results(overall_results, current_simulation_game,
                                             current_simulation_result)
            /\ sims_left' = sims_left - 1
            /\ season_pc' = "idle"
    /\ UNCHANGED <<teams, actual_games, current_simulation_game,
                   current_simulation_base_games, current_simulation_games,
                   current_simulation_result, trials_run, batch_sims, active_batch, batch_log>>
    /\ UNCHANGED <<pctVars, poolVars, sweepVars>>

----------------------------------------------------------------------------
(* Season::run_all_game_simulations and Season::insert_results *)

\* Number of trials per batch a sweep may ask for.
MaxSweepSims == 1

\* Ids the DEFAULT of nfl.simulations can give the run set_simulation_id inserts.
SimulationIds == {1, 2}

\* Variant that runs the three forced batches for every game.
sweep_scenarios_all(game, include_decided) == <<HomeWin, AwayWin, Tie>>

\* The forced results run_all_game_simulations runs for `game`, in call order:
\* all three for a game without a result, and for a game with a result only
\* when include_decided is set.
sweep_scenarios(game, include_decided) ==
    IF game.game_result = None \/ include_decided
    THEN <<HomeWin, AwayWin, Tie>>
    ELSE <<>>

\* execute: a statement the database rejects is printed and nothing else
\* happens; the caller gets () either way.
execute(table, executed) ==
    IF executed THEN failed_statements ELSE failed_statements \cup {table}

\* Season::set_simulation_id.  `id` is the id the DEFAULT of nfl.simulations
\* gives the new run.  SELECT MAX(simulation_id) then returns it when the
\* insert was executed, and otherwise the id of the run before, or NULL when
\* there is none.
set_simulation_id(id, executed) ==
    IF executed THEN Some(id) ELSE Some(id - 1)

\* row.get(0) panics on the NULL of an empty nfl.simulations.
set_simulation_id_panics(id, executed) == ~executed /\ id = 1

\* run_all_game_simulations up to the loop over the games: set_simulation_id,
\* then simulate_current_state up to its loop.
RunAllGameSimulations(sims, include_decided, id, executed) ==
    /\ sweep.pc = "none"
    /\ failed_statements' = execute("nfl.simulations", executed)
    /\ IF set_simulation_id_panics(id, executed)
       THEN /\ sweep' = [sweep EXCEPT !.pc = "panicked"]
            /\ UNCHANGED <<pctVars, seasonVars, poolVars, simulation_id, new_rows>>
       ELSE /\ simulation_id' = set_simulation_id(id, executed)
            /\ StartCurrentState(sims)
            /\ sweep' = [pc |-> "games", sims |-> sims, include_decided |-> include_decided,
                         games_left |-> DOMAIN actual_games, game |-> 0,
                         scenarios_left |-> <<>>]
            /\ UNCHANGED new_rows

\* The loop `for (game_id, _) in games.iter()` moves to its next game, in the
\* HashMap's iteration order (any order).
SweepNextGame ==
    /\ sweep.pc = "games"
    /\ sweep.scenarios_left = <<>>
    /\ season_pc = "idle"
    /\ sims_left = 0
    /\ \E game_id \in sweep.games_left :
          sweep' = [sweep EXCEPT
                       !.games_left = @ \ {game_id},
                       !.game = game_id,
                       !.scenarios_left =
                           sweep_scenarios(actual_games[game_id], sweep.include_decided)]
    /\ UNCHANGED <<pctVars, seasonVars, poolVars, simulation_id, new_rows, failed_statements>>

\* The next simulate_for_game call of simulate_scenarios, up to its loop.
SweepSimulateForGame ==
    /\ sweep.pc = "games"
    /\ sweep.scenarios_left # <<>>
    /\ StartForGame(sweep.game, Head(sweep.scenarios_left), sweep.sims)
    /\ sweep' = [sweep EXCEPT !.scenarios_left = Tail(@)]
    /\ UNCHANGED <<simulation_id, new_rows, failed_statements>>

\* format!("{gid}") or "NULL"
format_game_id(game_id) ==
    IF IsSome(game_id) THEN ToString(Unwrap(game_id)) ELSE "NULL"

\* simulated_game_result of insert_results
format_game_result(game_result) ==
    IF ~IsSome(game_result) THEN "NULL"
    ELSE IF Unwrap(game_result) = HomeWin THEN "'home win'"
    ELSE IF Unwrap(game_result) = AwayWin THEN "'away win'"
    ELSE "'tie'"

\* One element of new_rows.
NewRow(id, lookup, season_outcome, simulations_with_outcome) ==
    [simulation_id |-> id,
     game_id |-> format_game_id(lookup.game_id),
     simulated_game_result |-> format_game_result(lookup.game_result),
     simulation_team_id |-> lookup.team_id,
     season_outcome |-> season_outcome,
     simulations_with_outcome |-> simulations_with_outcome]

\* The rows pushed for one entry of overall_results: one per key of the
\* two-entry `results` map.
LookupRows(id, lookup, result) ==
    SetToBag({NewRow(id, lookup, "division winner", result.division_winner)})
    (+) SetToBag({NewRow(id, lookup, "wildcard team", result.wildcard_team)})

RECURSIVE RowsOf(_, _, _)
RowsOf(id, results, keys) ==
    IF keys = {} THEN EmptyBag
    ELSE LET k == CHOOSE x \in keys : TRUE
         IN  LookupRows(id, k, results[k]) (+) RowsOf(id, results, keys \ {k})

\* Variant that leaves out the rows whose count is zero.
insert_results_nonzero(results, id) ==
    LET all == RowsOf(id, results, DOMAIN results)
        kept == {row \in BagToSet(all) : row.simulations_with_outcome # 0}
    IN  [row \in kept |-> all[row]]

\* new_rows of Season::insert_results
insert_results(results, id) == RowsOf(id, results, DOMAIN results)

\* self.simulation_id.unwrap() inside the loop over overall_results
insert_results_panics(results, id) == DOMAIN results # {} /\ ~IsSome(id)

\* The end of run_all_game_simulations: insert_results builds its statement
\* and hands it to execute; run_all_game_simulations returns.
InsertResults ==
    /\ sweep.pc = "games"
    /\ sweep.games_left = {}
    /\ sweep.scenarios_left = <<>>
    /\ season_pc = "idle"
    /\ sims_left = 0
    /\ IF insert_results_panics(overall_results, simulation_id)
       THEN /\ sweep' = [sweep EXCEPT !.pc = "panicked"]
            /\ UNCHANGED <<new_rows, failed_statements>>
       ELSE /\ new_rows' = insert_results(overall_results, Unwrap(simulation_id))
            /\ \E executed \in BOOLEAN :
                  failed_statements' = execute("nfl.simulation_results", executed)
            /\ sweep' = [sweep EXCEPT !.pc = "done"]
    /\ UNCHANGED <<pctVars, seasonVars, poolVars, simulation_id>>

----------------------------------------------------------------------------
(* Inputs: leagues and schedules *)

Team(conference, division) == [conference |-> conference, division |-> division]

\* The games of `fixture` (<<home, away>> pairs; the game id is the position)
\* that are played, with their results: results[i] = "absent" leaves game i out.
FixtureGames(tms, fixture, results) ==
    [g \in {i \in DOMAIN results : results[i] # "absent"} |->
        NewGame(tms, fixture[g][1], fixture[g][2], results[g])]

\* Every fully decided schedule over the first n games of `fixture`.
DecidedSchedules(tms, fixture, n) ==
    {FixtureGames(tms, fixture, results) : results \in [1 .. n -> GameResult \cup {"absent"}]}

\* A season right after run_simulation on a schedule without undecided games.
InitTrial(tms, schedules) ==
    /\ teams = tms
    /\ actual_games \in schedules
    /\ current_simulation_game = <<>>
    /\ current_simulation_base_games = actual_games
    /\ current_simulation_games = actual_games
    /\ current_simulation_result = NewCurrentSimulationResult
    /\ overall_results = <<>>
    /\ season_pc = "evaluate"
    /\ sims_left = 0
    /\ trials_run = 0
    /\ batch_sims = <<>>
    /\ active_batch = <<>>
    /\ batch_log = <<>>

NonEmptySubsets(S) == SUBSET S \ {{}}

(* Division pools: a three-team division, a one-team division of the same *)
(* conference and a team of the other conference                          *)
DivisionLeague ==
    (1 :> Team("AFC", "East") @@ 2 :> Team("AFC", "East") @@ 3 :> Team("AFC", "East")
     @@ 4 :> Team("AFC", "North") @@ 5 :> Team("NFC", "West"))

DivisionFixture ==
    <<<<1, 2>>, <<3, 1>>, <<2, 3>>, <<3, 2>>, <<2, 5>>, <<1, 4>>, <<4, 3>>>>

\* Number of games of DivisionFixture that may be played.
DivisionGames == 5

(* A four-team division whose six games are the cycle 1 beat 2, 2 beat 3,  *)
(* 3 beat 1, and 4 lost to each of 1, 2, 3; the home team of each is free. *)
CycleLeague == [t \in 1 .. 4 |-> Team("AFC", "East")]

\* <<winner, loser>> of each game
CycleResults == <<<<1, 2>>, <<2, 3>>, <<3, 1>>, <<1, 4>>, <<2, 4>>, <<3, 4>>>>

CycleSchedules ==
    {[g \in DOMAIN CycleResults |->
        IF winner_at_home[g]
        THEN NewGame(CycleLeague, CycleResults[g][1], CycleResults[g][2], HomeWin)
        ELSE NewGame(CycleLeague, CycleResults[g][2], CycleResults[g][1], AwayWin)] :
     winner_at_home \in [DOMAIN CycleResults -> BOOLEAN]}

InitDivision ==
    /\ \/ InitTrial(DivisionLeague,
                    DecidedSchedules(DivisionLeague, DivisionFixture, DivisionGames))
       \/ InitTrial(CycleLeague, CycleSchedules)
    /\ InitIdlePool
    /\ InitIdlePercent
    /\ InitIdleSweep

\* Division pools are built from a division's team list (evaluate_divisions)
\* or from the tied teams of one division (break_wildcard_division_ties).
DivisionSources == UNION {NonEmptySubsets(division_mapping[d]) : d \in DOMAIN division_mapping}

NextDivision ==
    \/ BuildStandings
    \/ \E source_vec \in DivisionSources : NewPool(source_vec, Division)
    \/ DivisionOverall
    \/ DivisionDivision
    \/ DivisionHeadToHead
    \/ DivisionCommonGames
    \/ DivisionConference
    \/ DivisionRandom
    \/ DivisionWinner

SpecDivision == InitDivision /\ [][NextDivision]_vars

(* Wildcard pools: a conference of three divisions and a team of the other *)
(* conference                                                              *)
WildcardLeague ==
    (1 :> Team("AFC", "East") @@ 2 :> Team("AFC", "East") @@ 3 :> Team("AFC", "North")
     @@ 4 :> Team("AFC", "South") @@ 5 :> Team("NFC", "West"))

WildcardFixture == <<<<1, 2>>, <<3, 1>>, <<2, 4>>, <<4, 3>>, <<5, 1>>>>

\* Number of games of WildcardFixture that may be played.
WildcardGames == 3

InitWildcard ==
    /\ InitTrial(WildcardLeague, DecidedSchedules(WildcardLeague, WildcardFixture, WildcardGames))
    /\ InitIdlePool
    /\ InitIdlePercent
    /\ InitIdleSweep

\* Wildcard pools are built from a conference's team list without some teams
\* (evaluate_wildcards removes the division winners).
WildcardSources ==
    UNION {NonEmptySubsets(conference_mapping[c]) : c \in DOMAIN conference_mapping}

NextWildcard ==
    \/ BuildStandings
    \/ \E source_vec \in WildcardSources : NewPool(source_vec, Wildcard)
    \/ WildcardOverall
    \/ WildcardDivisionTies
    \/ WildcardSweep
    \/ WildcardConference
    \/ WildcardCommonGames
    \/ WildcardPickTwo
    \/ WildcardHeadToHead
    \/ WildcardConferenceAgain
    \/ WildcardCommonGamesAgain
    \/ WildcardRandom
    \/ WildcardRank

SpecWildcard == InitWildcard /\ [][NextWildcard]_vars

(* Standings builder on its own: games of every kind (division, conference *)
(* only, inter-conference) and a return game                               *)
StandingsFixture == <<<<1, 2>>, <<3, 1>>, <<5, 2>>, <<2, 1>>, <<4, 5>>, <<4, 3>>>>

\* Number of games of StandingsFixture that may be played.
StandingsGames == 4

InitStandings ==
    /\ InitTrial(WildcardLeague,
                 DecidedSchedules(WildcardLeague, StandingsFixture, StandingsGames))
    /\ InitIdlePool
    /\ InitIdlePercent
    /\ InitIdleSweep

SpecStandings == InitStandings /\ [][BuildStandings]_vars

(* Season batches: one conference with a four-team division and a one-team *)
(* division, so that three teams are left for the wildcard pool.  Game 1 is *)
(* a division game, undecided or played; game 2 is a played game between    *)
(* the two divisions.                                                       *)
SeasonLeague ==
    (1 :> Team("AFC", "East") @@ 2 :> Team("AFC", "East") @@ 3 :> Team("AFC", "East")
     @@ 4 :> Team("AFC", "East") @@ 5 :> Team("AFC", "North"))

SeasonFixture == <<<<1, 2>>, <<5, 3>>>>

SeasonSchedules ==
    {FixtureGames(SeasonLeague, SeasonFixture, <<r, HomeWin>>) : r \in GameResult \cup {None}}

\* Season::new_from_year: load_games leaves current_simulation_base_games equal
\* to actual_games.
InitSeason ==
    /\ teams = SeasonLeague
    /\ actual_games \in SeasonSchedules
    /\ current_simulation_game = <<>>
    /\ current_simulation_base_games = actual_games
    /\ current_simulation_games = <<>>
    /\ current_simulation_result = NewCurrentSimulationResult
    /\ overall_results = <<>>
    /\ season_pc = "idle"
    /\ sims_left = 0
    /\ trials_run = 0
    /\ batch_sims = <<>>
    /\ active_batch = <<>>
    /\ batch_log = <<>>
    /\ InitIdlePool
    /\ InitIdlePercent
    /\ InitIdleSweep

NextSeason ==
    \/ \E sims \in 1 .. MaxSims : SimulateCurrentState(sims)
    \/ \E game_id \in DOMAIN actual_games, game_result \in GameResult, sims \in 1 .. MaxSims :
          SimulateForGame(game_id, game_result, sims)
    \/ RunSimulation
    \/ BuildStandings
    \/ EvaluateDivisions
    \/ EvaluateWildcards
    \/ IncrementOverallResults

SpecSeason == InitSeason /\ [][NextSeason]_vars

(* A sweep on a new Season: games 1 and 2, between the two divisions, may *)
(* each be played or not yet; game 3 is a played division game.           *)
SweepFixture == <<<<5, 3>>, <<5, 4>>, <<1, 2>>>>

SweepSchedules ==
    {FixtureGames(SeasonLeague, SweepFixture, <<r1, r2, HomeWin>>) :
        r1 \in {HomeWin, None}, r2 \in {AwayWin, None}}

InitSweep ==
    /\ teams = SeasonLeague
    /\ actual_games \in SweepSchedules
    /\ current_simulation_game = <<>>
    /\ current_simulation_base_games = actual_games
    /\ current_simulation_games = <<>>
    /\ current_simulation_result = NewCurrentSimulationResult
    /\ overall_results = <<>>
    /\ season_pc = "idle"
    /\ sims_left = 0
    /\ trials_run = 0
    /\ batch_sims = <<>>
    /\ active_batch = <<>>
    /\ batch_log = <<>>
    /\ InitIdlePool
    /\ InitIdlePercent
    /\ InitIdleSweep

NextSweep ==
    \/ \E sims \in 1 .. MaxSweepSims, include_decided \in BOOLEAN, id \in SimulationIds,
          executed \in BOOLEAN :
          RunAllGameSimulations(sims, include_decided, id, executed)
    \/ SweepNextGame
    \/ SweepSimulateForGame
    \/ InsertResults
    \/ RunSimulation
    \/ BuildStandings
    \/ EvaluateDivisions
    \/ EvaluateWildcards
    \/ IncrementOverallResults

SpecSweep == InitSweep /\ [][NextSweep]_vars

(* Both resolvers on the league of the wildcard pools, over four families of *)
(* fully played schedules:                                                   *)
(*  - two division rivals 1 and 2 with the common opponent 3;                *)
(*  - teams 1, 3, 4 of three divisions with head-to-head games among them;   *)
(*  - the cycle 1, 2, 3 and a game of team 4, so that two teams of one       *)
(*    division can be tied with teams of other divisions;                    *)
(*  - teams 3 and 4 with four or five games against the common opponent 1.   *)
CommonGamesFixture == <<<<1, 2>>, <<1, 3>>, <<2, 3>>, <<4, 1>>>>
HeadToHeadFixture == <<<<3, 1>>, <<4, 3>>, <<5, 3>>, <<1, 5>>>>
DivisionTiesFixture == <<<<1, 2>>, <<2, 3>>, <<3, 1>>, <<4, 5>>>>
ManyCommonGamesFixture == <<<<3, 1>>, <<1, 3>>, <<3, 1>>, <<4, 1>>, <<1, 4>>, <<2, 3>>>>

TieBreakSchedules ==
    {FixtureGames(WildcardLeague, CommonGamesFixture, <<r1, r2, r3, r4>>) :
        r1 \in {Tie, HomeWin}, r2 \in GameResult, r3 \in GameResult,
        r4 \in {HomeWin, AwayWin}}
    \cup
    {FixtureGames(WildcardLeague, HeadToHeadFixture, <<r1, r2, HomeWin, r4>>) :
        r1 \in GameResult, r2 \in GameResult, r4 \in {HomeWin, AwayWin}}
    \cup
    {FixtureGames(WildcardLeague, DivisionTiesFixture, <<r1, r2, r3, r4>>) :
        r1 \in GameResult, r2 \in {HomeWin, AwayWin}, r3 \in {HomeWin, AwayWin},
        r4 \in {Tie, HomeWin}}
    \cup
    {FixtureGames(WildcardLeague, ManyCommonGamesFixture,
                  <<HomeWin, r2, r3, HomeWin, HomeWin, HomeWin>>) :
        r2 \in {HomeWin, Tie}, r3 \in {HomeWin, "absent"}}

InitTieBreak ==
    /\ InitTrial(WildcardLeague, TieBreakSchedules)
    /\ InitIdlePool
    /\ InitIdlePercent
    /\ InitIdleSweep

\* TeamPool::new takes any vector of team ids: the team list of a division or
\* a part of it, the empty list included, for a Division pool, and a
\* conference's team list without some teams for a Wildcard pool.
TieBreakDivisionSources == UNION {SUBSET division_mapping[d] : d \in DOMAIN division_mapping}

NextTieBreak ==
    \/ BuildStandings
    \/ \E source_vec \in TieBreakDivisionSources : NewPool(source_vec, Division)
    \/ \E source_vec \in WildcardSources : NewPool(source_vec, Wildcard)
    \/ DivisionOverall
    \/ DivisionDivision
    \/ DivisionHeadToHead
    \/ DivisionCommonGames
    \/ DivisionConference
    \/ DivisionRandom
    \/ DivisionWinner
    \/ WildcardOverall
    \/ WildcardDivisionTies
    \/ WildcardSweep
    \/ WildcardConference
    \/ WildcardCommonGames
    \/ WildcardPickTwo
    \/ WildcardHeadToHead
    \/ WildcardConferenceAgain
    \/ WildcardCommonGamesAgain
    \/ WildcardRandom
    \/ WildcardRank

SpecTieBreak == InitTieBreak /\ [][NextTieBreak]_vars

(* Record calculator on its own *)
InitCalculator ==
    /\ InitPercent
    /\ InitIdleSeason
    /\ InitIdlePool
    /\ InitIdleSweep

NextCalculator == CalculatePercent /\ UNCHANGED <<seasonVars, poolVars, sweepVars>>

SpecPercent == InitCalculator /\ [][NextCalculator]_vars

----------------------------------------------------------------------------
(* Properties *)

PoolStarted == pool_pc # "none"
DivisionPool == pool.pool_type = Division /\ PoolStarted
WildcardPool == pool.pool_type = Wildcard /\ PoolStarted

\* C1: evaluating a Division pool on a non-empty team set never fails, and
\* when it ends there is exactly one winner, a member of the pool's team set,
\* and the tied set holds that team alone.
C1_DivisionReturnsOneMember ==
    (DivisionPool /\ pool.teams # {}) =>
        /\ pool_pc # "panicked"
        /\ pool_pc = "done" =>
              /\ IsSome(pool.winner)
              /\ Unwrap(pool.winner) \in pool.teams
              /\ pool.tied_teams = {Unwrap(pool.winner)}

\* A three-team pool ended with team 3 as winner although all three teams had
\* the same overall percentage.
C1_Witness ==
    /\ DivisionPool
    /\ pool_pc = "done"
    /\ pool.teams = {1, 2, 3}
    /\ pool.winner = Some(3)
    /\ \A t \in pool.teams : PoolRecords[t].overall_percent = PoolRecords[3].overall_percent

\* C2: evaluating a Wildcard pool of any size never fails, and when it ends
\* the ranking holds exactly min(3, |pool|) pairwise distinct teams of the pool.
C2_WildcardRanksMinThree ==
    WildcardPool =>
        /\ pool_pc # "panicked"
        /\ pool_pc = "done" =>
              LET ranking == Unwrap(pool.ranking)
              IN  /\ Len(ranking) = Min(3, Cardinality(pool.teams))
                  /\ Range(ranking) \subseteq pool.teams
                  /\ Cardinality(Range(ranking)) = Len(ranking)

InTrial == season_pc \in {"evaluate", "divisions", "wildcards", "increment"}
ForGameBatch == IsSome(active_batch) /\ IsSome(Unwrap(active_batch).scenario)
ForcedGame == Unwrap(Unwrap(active_batch).scenario)[1]
ForcedResult == Unwrap(Unwrap(active_batch).scenario)[2]

\* C3: in every trial of a batch started by simulate_for_game(G, r, N), game G
\* has result r in the working game set while standings are built, divisions
\* and wildcards are resolved and the aggregator is incremented.
C3_ForcedGameKeepsResult ==
    (ForGameBatch /\ InTrial) =>
        current_simulation_games[ForcedGame].game_result = ForcedResult

\* A trial of a batch that forces game 1, whose real result is HomeWin, to a
\* Tie has reached the wildcard step.
C3_Witness ==
    /\ ForGameBatch
    /\ season_pc = "wildcards"
    /\ ForcedGame = 1
    /\ ForcedResult = Tie
    /\ actual_games[1].game_result = HomeWin

ScenarioOf(lookup) ==
    IF IsSome(lookup.game_id)
    THEN Some(<<Unwrap(lookup.game_id), Unwrap(lookup.game_result)>>)
    ELSE <<>>

\* C4: every aggregated division_winner and wildcard_team counter lies between
\* 0 and the number of trials of the batch run for its scenario.
C4_CountersWithinTrials ==
    \A k \in DOMAIN overall_results :
        /\ overall_results[k].division_winner \in 0 .. batch_sims[ScenarioOf(k)]
        /\ overall_results[k].wildcard_team \in 0 .. batch_sims[ScenarioOf(k)]

\* X and Y are two teams of the pool with the same overall percentage,
\* strictly better than every other team of the pool, and X won their only game.
GamesBetween(x, y) ==
    {g \in DOMAIN PoolGames :
        {PoolGames[g].home_team, PoolGames[g].away_team} = {x, y}}
Beat(x, y, g) ==
    \/ PoolGames[g].home_team = x /\ PoolGames[g].away_team = y
       /\ PoolGames[g].game_result = HomeWin
    \/ PoolGames[g].home_team = y /\ PoolGames[g].away_team = x
       /\ PoolGames[g].game_result = AwayWin
TwoTeamTie(x, y) ==
    /\ DivisionPool
    /\ x \in pool.teams /\ y \in pool.teams /\ x # y
    /\ PoolRecords[x].overall_percent = PoolRecords[y].overall_percent
    /\ \A z \in pool.teams \ {x, y} :
          PoolRecords[z].overall_percent < PoolRecords[x].overall_percent
    /\ Cardinality(GamesBetween(x, y)) = 1
    /\ \A g \in GamesBetween(x, y) : Beat(x, y, g)
BeforeRandom == pool_pc \in {"random", "winner"}
ResolvedTo(x) ==
    /\ pool_pc # "panicked"
    /\ BeforeRandom => pool.tied_teams = {x}
    /\ pool_pc = "done" => pool.winner = Some(x)

\* C5 as claimed: in a two-team tie on overall percentage in which X beat Y in
\* their only meeting, the tied set is {X} before the random pick and X wins.
C5_HeadToHeadDecides ==
    \A x \in TeamIds, y \in TeamIds : TwoTeamTie(x, y) => ResolvedTo(x)

\* C5 amended: the same, provided X and Y also have the same division
\* percentage (the division percentage is compared before head-to-head).
C5_HeadToHeadDecidesEqualDivision ==
    \A x \in TeamIds, y \in TeamIds :
        (TwoTeamTie(x, y)
         /\ PoolRecords[x].division_percent = PoolRecords[y].division_percent)
        => ResolvedTo(x)

\* Team 3 won a three-team pool by beating team 1, tied with it on overall and
\* division percentage and ahead of team 2, in their only game.
C5_Witness ==
    /\ TwoTeamTie(3, 1)
    /\ PoolRecords[1].division_percent = PoolRecords[3].division_percent
    /\ pool.teams = {1, 2, 3}
    /\ pool_pc = "done"
    /\ pool.winner = Some(3)

CycleScenario ==
    /\ teams = CycleLeague
    /\ current_simulation_games \in CycleSchedules
    /\ DivisionPool
    /\ pool.teams = {1, 2, 3, 4}

\* C6: in the cycle scenario the tied set is {A, B, C} after the overall
\* percentage step, when the head-to-head step is applied and after it; the
\* tied set never holds D afterwards and the winner is one of A, B, C.
C6_CycleKeepsThree ==
    CycleScenario =>
        /\ pool_pc # "panicked"
        /\ pool_pc \in {"division", "head_to_head", "common_games"} =>
              pool.tied_teams = {1, 2, 3}
        /\ pool_pc \in {"conference", "random", "winner", "done"} =>
              (pool.tied_teams # {} /\ pool.tied_teams \subseteq {1, 2, 3})
        /\ pool_pc = "done" => (IsSome(pool.winner) /\ Unwrap(pool.winner) \in {1, 2, 3})

\* The cycle scenario ended with team 2 as winner, team 2 being the away team
\* of its game against team 3.
C6_Witness ==
    /\ CycleScenario
    /\ pool_pc = "done"
    /\ pool.winner = Some(2)
    /\ current_simulation_games[2].away_team = 2

\* C7: a Division pool whose team set is a singleton {A} keeps tied set {A}
\* after every step of the cascade and returns A.
C7_SingletonUnchanged ==
    (DivisionPool /\ Cardinality(pool.teams) = 1) =>
        /\ pool_pc # "panicked"
        /\ pool.tied_teams = pool.teams
        /\ pool_pc = "done" => (IsSome(pool.winner) /\ pool.teams = {Unwrap(pool.winner)})

\* The one-team division {5} was resolved, team 5 having lost a game.
C7_Witness ==
    /\ DivisionPool
    /\ pool.teams = {5}
    /\ pool_pc = "done"
    /\ pool.winner = Some(5)
    /\ PoolRecords[5].overall_record[2] = 1

\* C8: every call returns floor((wins*1000 + ties*500) / total), or 0 for a
\* total of zero, never fails, and the result is between 0 and 1000; the four
\* sample records give 0, 1000, 500 and 500.
C8_PercentFormula ==
    /\ ~percent_panicked
    /\ \A i \in 1 .. Len(win_percent) :
          LET wins == record_tuple[i][1]
              losses == record_tuple[i][2]
              ties == record_tuple[i][3]
              total == wins + losses + ties
          IN  /\ total # 0 => win_percent[i] = (wins * 1000 + ties * 500) \div total
              /\ total = 0 => win_percent[i] = 0
              /\ win_percent[i] \in 0 .. 1000
              /\ record_tuple[i] = <<0, 0, 0>> => win_percent[i] = 0
              /\ record_tuple[i] = <<1, 0, 0>> => win_percent[i] = 1000
              /\ record_tuple[i] = <<1, 1, 0>> => win_percent[i] = 500
              /\ record_tuple[i] = <<0, 0, 1>> => win_percent[i] = 500

\* Both calls returned: 666 for (2, 1, 0) and 500 for the largest record.
C8_Witness ==
    /\ record_tuple = <<<<2, 1, 0>>, <<U8Max, U8Max, U8Max>>>>
    /\ win_percent = <<666, 500>>

\* C9: of two records with the same non-zero total, the one with at least as
\* many wins and at most as many losses has at least the other's percentage.
C9_PercentMonotonic ==
    LET a == record_tuple[1]
        b == record_tuple[2]
    IN  (/\ Len(win_percent) = 2
         /\ a[1] + a[2] + a[3] = b[1] + b[2] + b[3]
         /\ a[1] + a[2] + a[3] # 0
         /\ a[1] >= b[1]
         /\ a[2] <= b[2])
        => win_percent[1] >= win_percent[2]

\* Two records of three games each, the first with more wins and fewer losses,
\* got percentages 833 and 333.
C9_Witness ==
    /\ record_tuple = <<<<2, 0, 1>>, <<1, 2, 0>>>>
    /\ win_percent = <<833, 333>>

GamesOf(kind) ==
    {g \in DOMAIN current_simulation_games :
        \/ kind = "overall"
        \/ kind = "conference" /\ current_simulation_games[g].conference_game
        \/ kind = "division" /\ current_simulation_games[g].division_game}
WonBy(t, g) ==
    \/ current_simulation_games[g].home_team = t
       /\ current_simulation_games[g].game_result = HomeWin
    \/ current_simulation_games[g].away_team = t
       /\ current_simulation_games[g].game_result = AwayWin
LostBy(t, g) ==
    \/ current_simulation_games[g].home_team = t
       /\ current_simulation_games[g].game_result = AwayWin
    \/ current_simulation_games[g].away_team = t
       /\ current_simulation_games[g].game_result = HomeWin
TiedBy(t, g) ==
    /\ t \in {current_simulation_games[g].home_team, current_simulation_games[g].away_team}
    /\ current_simulation_games[g].game_result = Tie
CountedRecord(t, kind) ==
    <<Cardinality({g \in GamesOf(kind) : WonBy(t, g)}),
      Cardinality({g \in GamesOf(kind) : LostBy(t, g)}),
      Cardinality({g \in GamesOf(kind) : TiedBy(t, g)})>>
StandingsBuilt == season_pc = "divisions"

\* C10: after populate_records on a fully decided game set every team's
\* overall, conference and division record counts the games it won, lost and
\* tied among all games, the conference games and the division games.
C10_RecordsCountGames ==
    StandingsBuilt =>
        \A t \in TeamIds :
            LET record == current_simulation_result.team_records[t]
            IN  /\ record.overall_record = CountedRecord(t, "overall")
                /\ record.conference_record = CountedRecord(t, "conference")
                /\ record.division_record = CountedRecord(t, "division")

\* Standings were built in which team 2 tied a division game away from home,
\* lost an inter-conference game, and team 4 played no game.
C10_Witness ==
    /\ StandingsBuilt
    /\ current_simulation_result.team_records[2].overall_record = <<0, 1, 1>>
    /\ current_simulation_result.team_records[2].conference_record = <<0, 0, 1>>
    /\ current_simulation_result.team_records[2].division_record = <<0, 0, 1>>
    /\ current_simulation_result.team_records[1].division_record = <<0, 0, 1>>
    /\ current_simulation_result.team_records[4].overall_record = <<0, 0, 0>>
    /\ 1 \in DOMAIN current_simulation_games

ActiveScenario == Unwrap(active_batch).scenario
UnconditionalBatch == IsSome(active_batch) /\ ~IsSome(ActiveScenario)
BatchRunning == sims_left > 0 \/ InTrial

\* C11: in every trial every game of the working game set has a result from
\* the moment standings are built on, so neither the standings builder nor a
\* tie-break step can meet a game without a result, and no trial ends in a
\* fatal failure, whatever batches ran before.
C11_EveryGameDecidedInTrial ==
    /\ season_pc # "panicked"
    /\ InTrial =>
          /\ DOMAIN current_simulation_games = DOMAIN actual_games
          /\ \A g \in DOMAIN current_simulation_games :
                current_simulation_games[g].game_result \in GameResult
          /\ ~populate_records_panics(current_simulation_games)
          /\ \A tied \in SUBSET TeamIds :
                /\ ~head_to_head_panics(tied, current_simulation_games)
                /\ ~break_by_common_games_panics(tied, current_simulation_games)

\* In the second batch run on a Season, a trial built standings with the
\* undecided game 1 randomized to a Tie.
C11_Witness ==
    /\ season_pc = "divisions"
    /\ Len(batch_log) = 2
    /\ actual_games[1].game_result = None
    /\ current_simulation_base_games[1].game_result = None
    /\ current_simulation_games[1].game_result = Tie
    /\ current_simulation_games[1].is_simulated

\* C12: in every trial, every game with a real result in the authoritative
\* schedule has that result in the working game set, except the game forced
\* by the batch the trial belongs to.
C12_RealResultsKept ==
    InTrial =>
        \A g \in DOMAIN actual_games :
            (/\ actual_games[g].game_result # None
             /\ ~(ForGameBatch /\ ForcedGame = g))
            => current_simulation_games[g].game_result = actual_games[g].game_result

\* C13: while a batch of simulate_current_state runs, the base schedule is the
\* authoritative schedule and the key under which trials increment counters
\* has no conditioning game and no conditioning result.
C13_UnconditionalBatchIsUnconditioned ==
    (UnconditionalBatch /\ BatchRunning) =>
        /\ current_simulation_base_games = actual_games
        /\ current_simulation_game = <<>>

\* C14: from the start of a batch simulate_for_game(G, r, N) on, the base
\* schedule is the authoritative schedule with game G's result replaced by r;
\* no other game carries a result forced by an earlier batch.
C14_ForcedBatchStartsFromActual ==
    ForGameBatch =>
        /\ DOMAIN current_simulation_base_games = DOMAIN actual_games
        /\ \A g \in DOMAIN actual_games :
              IF g = ForcedGame
              THEN current_simulation_base_games[g] =
                       [actual_games[g] EXCEPT !.game_result = ForcedResult]
              ELSE current_simulation_base_games[g] = actual_games[g]

\* A batch forcing the undecided game 1 to HomeWin runs right after a batch
\* that forced game 2, really a HomeWin, to a Tie; game 2 is a HomeWin again.
C14_Witness ==
    /\ ForGameBatch
    /\ sims_left > 0
    /\ Len(batch_log) = 2
    /\ batch_log[1].scenario = Some(<<2, Tie>>)
    /\ batch_log[2].scenario = Some(<<1, HomeWin>>)
    /\ actual_games[1].game_result = None
    /\ current_simulation_base_games[2].game_result = HomeWin

TrialStarts == season_pc = "idle" /\ season_pc' = "evaluate"

\* C15: no step of a trial changes the authoritative schedule or the base
\* schedule; when a trial starts, its result holds no record, no division
\* winner and no wildcard team, and its working game set is the base schedule
\* in which only games without a result got one.
C15_TrialsStartFresh ==
    [][/\ (InTrial \/ InTrial') =>
              UNCHANGED <<actual_games, current_simulation_base_games>>
       /\ TrialStarts =>
              /\ current_simulation_result'.team_records = <<>>
              /\ current_simulation_result'.division_winners = {}
              /\ current_simulation_result'.wildcard_teams = {}
              /\ DOMAIN current_simulation_games' = DOMAIN current_simulation_base_games
              /\ \A g \in DOMAIN current_simulation_base_games :
                    IF current_simulation_base_games[g].game_result # None
                    THEN current_simulation_games'[g] = current_simulation_base_games[g]
                    ELSE \E r \in GameResult :
                            current_simulation_games'[g] =
                                [current_simulation_base_games[g] EXCEPT
                                    !.game_result = r, !.is_simulated = TRUE]]_vars

\* The second trial of a batch of two has started with an empty result, after
\* a first trial that randomized game 1.
C15_Witness ==
    /\ season_pc = "evaluate"
    /\ IsSome(active_batch)
    /\ Unwrap(active_batch).sims = 2
    /\ sims_left = 1
    /\ actual_games[1].game_result = None
    /\ current_simulation_games[1].is_simulated
    /\ current_simulation_result.team_records = <<>>
    /\ current_simulation_result.division_winners = {}
    /\ current_simulation_result.wildcard_teams = {}

UndecidedGames == {g \in DOMAIN actual_games : actual_games[g].game_result = None}
SweepStarted == sweep.pc \in {"games", "done"}
SweepDone == sweep.pc = "done"
LoggedBatch(scenario) == [scenario |-> scenario, sims |-> sweep.sims]

\* The batches of a sweep: the unconditional batch first; every later batch
\* forces an undecided game; at the end each undecided game has its three
\* batches HomeWin, AwayWin, Tie in a row and there are 1 + 3 x undecided
\* batches, each of N trials.
SweepBatchesAsSpecified ==
    /\ SweepStarted =>
          /\ Len(batch_log) >= 1
          /\ batch_log[1] = LoggedBatch(<<>>)
          /\ \A i \in 2 .. Len(batch_log) :
                /\ IsSome(batch_log[i].scenario)
                /\ Unwrap(batch_log[i].scenario)[1] \in UndecidedGames
                /\ batch_log[i].sims = sweep.sims
    /\ SweepDone =>
          /\ Len(batch_log) = 1 + 3 * Cardinality(UndecidedGames)
          /\ \A g \in UndecidedGames :
                \E i \in 2 .. Len(batch_log) - 2 :
                    /\ batch_log[i] = LoggedBatch(Some(<<g, HomeWin>>))
                    /\ batch_log[i + 1] = LoggedBatch(Some(<<g, AwayWin>>))
                    /\ batch_log[i + 2] = LoggedBatch(Some(<<g, Tie>>))

\* C16 as claimed: every call of run_all_game_simulations runs exactly the
\* unconditional batch and then three batches per undecided game, none for a
\* game with a real result.
C16_SweepBatches == SweepBatchesAsSpecified

\* C16 amended: the same for every call with include_decided = false.
C16_SweepBatchesUndecidedOnly == ~sweep.include_decided => SweepBatchesAsSpecified

\* A sweep without include_decided ended after seven batches on a schedule
\* with two undecided games (1 and 2) and one played game (3); game 2 was
\* swept before game 1.
C16_Witness ==
    /\ SweepDone
    /\ ~sweep.include_decided
    /\ UndecidedGames = {1, 2}
    /\ DOMAIN actual_games = {1, 2, 3}
    /\ Len(batch_log) = 7
    /\ batch_log[2].scenario = Some(<<2, HomeWin>>)
    /\ batch_log[7].scenario = Some(<<1, Tie>>)

ScenariosRun == {batch_log[i].scenario : i \in 1 .. Len(batch_log)}
ScenarioGameText(scenario) ==
    IF scenario = <<>> THEN "NULL"
    ELSE IF Unwrap(scenario)[1] = 1 THEN "1"
    ELSE IF Unwrap(scenario)[1] = 2 THEN "2" ELSE "3"
ScenarioResultText(scenario) ==
    IF scenario = <<>> THEN "NULL"
    ELSE IF Unwrap(scenario)[2] = HomeWin THEN "'home win'"
    ELSE IF Unwrap(scenario)[2] = AwayWin THEN "'away win'"
    ELSE "'tie'"
RowsFor(scenario, t, outcome) ==
    {row \in BagToSet(new_rows) :
        /\ row.game_id = ScenarioGameText(scenario)
        /\ row.simulated_game_result = ScenarioResultText(scenario)
        /\ row.simulation_team_id = t
        /\ row.season_outcome = outcome}
CountOf(scenario, t, outcome) ==
    IF outcome = "division winner"
    THEN overall_results[Lookup(scenario, t)].division_winner
    ELSE overall_results[Lookup(scenario, t)].wildcard_team

\* C20: after run_all_game_simulations the statement holds, for every scenario
\* that was run and every team, exactly one 'division winner' row and one
\* 'wildcard team' row carrying the aggregated count (zero included), and no
\* other row.
C20_TwoRowsPerScenarioAndTeam ==
    SweepDone =>
        /\ BagCardinality(new_rows) = 2 * Cardinality(ScenariosRun) * Cardinality(TeamIds)
        /\ \A scenario \in ScenariosRun, t \in TeamIds,
              outcome \in {"division winner", "wildcard team"} :
                /\ Cardinality(RowsFor(scenario, t, outcome)) = 1
                /\ \A row \in RowsFor(scenario, t, outcome) :
                      /\ CopiesIn(row, new_rows) = 1
                      /\ row.simulation_id = Unwrap(simulation_id)
                      /\ row.simulations_with_outcome = CountOf(scenario, t, outcome)

\* A finished sweep produced the zero-count 'division winner' row of team 4
\* under game 1 forced to a tie, the row of team 1 counting one trial under
\* game 1 forced to a home win, and the zero-count unconditional 'wildcard
\* team' row of team 5.
C20_Witness ==
    /\ SweepDone
    /\ simulation_id = Some(2)
    /\ CopiesIn([simulation_id |-> 2, game_id |-> "1", simulated_game_result |-> "'tie'",
                 simulation_team_id |-> 4, season_outcome |-> "division winner",
                 simulations_with_outcome |-> 0], new_rows) = 1
    /\ CopiesIn([simulation_id |-> 2, game_id |-> "1",
                 simulated_game_result |-> "'home win'",
                 simulation_team_id |-> 1, season_outcome |-> "division winner",
                 simulations_with_outcome |-> 1], new_rows) = 1
    /\ CopiesIn([simulation_id |-> 2, game_id |-> "NULL", simulated_game_result |-> "NULL",
                 simulation_team_id |-> 5, season_outcome |-> "wildcard team",
                 simulations_with_outcome |-> 0], new_rows) = 1

TrialOrder ==
    {<<"idle", "evaluate">>, <<"evaluate", "divisions">>, <<"divisions", "wildcards">>,
     <<"wildcards", "increment">>, <<"increment", "idle">>}
PerMille(record) ==
    IF record[1] + record[2] + record[3] = 0 THEN 0
    ELSE (record[1] * 1000 + record[3] * 500) \div (record[1] + record[2] + record[3])
StandingsComplete(result) ==
    /\ DOMAIN result.team_records = TeamIds
    /\ \A t \in TeamIds :
          /\ result.team_records[t].overall_percent =
                 PerMille(result.team_records[t].overall_record)
          /\ result.team_records[t].conference_percent =
                 PerMille(result.team_records[t].conference_record)
          /\ result.team_records[t].division_percent =
                 PerMille(result.team_records[t].division_record)
DivisionsResolved(result) ==
    \A d \in DOMAIN division_mapping :
        Cardinality(division_mapping[d] \cap result.division_winners) = 1
WildcardsResolved(result) ==
    \A c \in DOMAIN conference_mapping :
        Cardinality(conference_mapping[c] \cap result.wildcard_teams) = 3

\* C17: the steps of a trial follow each other in the order randomize, build
\* standings, resolve divisions, resolve wildcards, increment: when standings
\* are built every game has a result; when divisions are resolved every team
\* has its records and percentages; when wildcards are resolved every
\* division has its winner; the aggregator changes only in the last step,
\* after every conference has its wildcard teams.
C17_TrialStepsInOrder ==
    [][/\ season_pc' # season_pc => <<season_pc, season_pc'>> \in TrialOrder
       /\ season_pc' = "evaluate" =>
              /\ \A g \in DOMAIN current_simulation_games' :
                    current_simulation_games'[g].game_result \in GameResult
              /\ current_simulation_result'.team_records = <<>>
       /\ season_pc' = "divisions" =>
              /\ StandingsComplete(current_simulation_result')
              /\ current_simulation_result'.division_winners = {}
       /\ season_pc' = "wildcards" =>
              /\ StandingsComplete(current_simulation_result')
              /\ DivisionsResolved(current_simulation_result')
              /\ current_simulation_result'.wildcard_teams = {}
       /\ season_pc' = "increment" =>
              /\ DivisionsResolved(current_simulation_result')
              /\ WildcardsResolved(current_simulation_result')
       /\ (InTrial /\ overall_results' # overall_results) =>
              /\ season_pc = "increment"
              /\ DivisionsResolved(current_simulation_result)
              /\ WildcardsResolved(current_simulation_result)
              /\ UNCHANGED <<current_simulation_games, current_simulation_result>>]_vars

\* A trial is about to increment the aggregator: the divisions went to teams
\* 2 and 5, the wildcards to 1, 3 and 4, and team 2's counter is still 0.
C17_Witness ==
    /\ season_pc = "increment"
    /\ current_simulation_result.division_winners = {2, 5}
    /\ current_simulation_result.wildcard_teams = {1, 3, 4}
    /\ current_simulation_result.team_records[2].overall_percent = 1000
    /\ overall_results[Lookup(current_simulation_game, 2)].division_winner = 0

\* C18: the wildcard teams of a conference are taken from the conference's
\* teams that are not division winners of the same trial: no team is both a
\* division winner and a wildcard team.
C18_WildcardsExcludeDivisionWinners ==
    /\ current_simulation_result.division_winners
           \cap current_simulation_result.wildcard_teams = {}
    /\ season_pc = "increment" =>
          \A c \in DOMAIN conference_mapping :
              /\ current_simulation_result.wildcard_teams \cap conference_mapping[c]
                     \subseteq conference_mapping[c] \ current_simulation_result.division_winners
              /\ Cardinality(current_simulation_result.wildcard_teams
                                 \cap conference_mapping[c]) = 3

\* Wildcards were resolved after teams 1 and 5 won their divisions; teams 2, 3
\* and 4 are the wildcard teams.
C18_Witness ==
    /\ season_pc = "increment"
    /\ current_simulation_result.division_winners = {1, 5}
    /\ current_simulation_result.wildcard_teams = {2, 3, 4}

IncrementStep == season_pc = "increment" /\ season_pc' = "idle"
Plus(condition) == IF condition THEN 1 ELSE 0

\* C19: the increment that ends a trial of a batch run for scenario K adds
\* exactly 1 to the division_winner counter under K of every division winner
\* of the trial and to the wildcard_team counter under K of every wildcard
\* team of the trial, and changes no other counter.
C19_IncrementUnderBatchKey ==
    [][IncrementStep =>
          /\ DOMAIN overall_results' = DOMAIN overall_results
          /\ \A k \in DOMAIN overall_results :
                /\ overall_results'[k].division_winner =
                       overall_results[k].division_winner
                       + Plus(/\ ScenarioOf(k) = ActiveScenario
                              /\ k.team_id \in current_simulation_result.division_winners)
                /\ overall_results'[k].wildcard_team =
                       overall_results[k].wildcard_team
                       + Plus(/\ ScenarioOf(k) = ActiveScenario
                              /\ k.team_id \in current_simulation_result.wildcard_teams)]_vars

----------------------------------------------------------------------------
(* Properties of the tie-break criteria *)

Ranking == IF IsSome(pool.ranking) THEN Unwrap(pool.ranking) ELSE <<>>
PoolRunning == PoolStarted /\ pool_pc \notin {"done", "panicked"}
EmptyTiedSet == PoolRunning /\ pool.tied_teams = {}

\* C21: while a resolver runs on an empty tied set (a Division pool built from
\* an empty list, or a Wildcard iteration that starts when every team of the
\* pool is ranked), each of its calls either panics or leaves the pool as it
\* is without reaching the statement that takes the winner or pushes the top
\* team; no winner is returned and nothing is appended to the ranking.
C21_EmptyTiedSetIsFatal ==
    [][EmptyTiedSet =>
          \/ pool_pc' = "panicked" /\ pool' = pool
          \/ /\ pool' = pool
             /\ pool_pc' \notin {"winner", "w_rank", "done"}]_vars

\* The third iteration of a Wildcard pool of the two teams 3 and 4 started
\* with both ranked and ended in the panic of the random pick.
C21_Witness ==
    /\ WildcardPool
    /\ pool.teams = {3, 4}
    /\ Len(Ranking) = 2
    /\ pool_iter = 2
    /\ pool.tied_teams = {}
    /\ pool_pc = "panicked"

\* The same for a Division pool built from the empty list.
EmptyDivisionPoolPanicked ==
    /\ DivisionPool
    /\ pool.teams = {}
    /\ pool.winner = <<>>
    /\ pool_pc = "panicked"

ExecuteFailed == failed_statements' # failed_statements
SweepGoesOn == sweep.pc' \in {"games", "done"}
CountsKept ==
    \A lookup \in DOMAIN overall_results :
        /\ lookup \in DOMAIN overall_results'
        /\ overall_results'[lookup] = overall_results[lookup]

\* C22: a step of the sweep in which a persistence statement fails (the insert
\* of the run in set_simulation_id, or the insert of the result rows in
\* insert_results) neither lets the sweep go on to its batches nor lets it
\* return as a finished sweep, and it leaves every aggregated count as it was.
C22_PersistenceFailureSurfaced ==
    [][ExecuteFailed => (~SweepGoesOn /\ CountsKept)]_vars

DivisionOrder ==
    <<"overall", "division", "head_to_head", "common_games", "conference", "random", "winner">>
OverallPercent(t) == PoolRecords[t].overall_percent
DivisionPercent(t) == PoolRecords[t].division_percent
ConferencePercent(t) == PoolRecords[t].conference_percent
BestOverall(tied) == {t \in tied : \A u \in tied : OverallPercent(u) <= OverallPercent(t)}
BestDivision(tied) == {t \in tied : \A u \in tied : DivisionPercent(u) <= DivisionPercent(t)}
BestConference(tied) ==
    {t \in tied : \A u \in tied : ConferencePercent(u) <= ConferencePercent(t)}
TiedBefore == pool.tied_teams
TiedAfter == pool.tied_teams'

\* C23: a Division pool on a non-empty team list goes through its six steps
\* in the order overall percentage, division percentage, head-to-head, common
\* games with min_games 0, conference percentage, random pick, each once; a
\* step of the first five leaves a tied set of at most one team as it is, and
\* after the sixth the tied set holds exactly one team.
C23_DivisionCascadeOrder ==
    [][(DivisionPool /\ pool.teams # {}) =>
          \A i \in 1 .. 6 :
              pool_pc = DivisionOrder[i] =>
                  /\ pool_pc' = DivisionOrder[i + 1]
                  /\ (i <= 5 /\ Cardinality(TiedBefore) <= 1) => TiedAfter = TiedBefore
                  /\ (i = 1 /\ Cardinality(TiedBefore) > 1) => TiedAfter = BestOverall(TiedBefore)
                  /\ (i = 2 /\ Cardinality(TiedBefore) > 1) => TiedAfter = BestDivision(TiedBefore)
                  /\ i = 3 => TiedAfter = break_by_head_to_head(TiedBefore, PoolGames)
                  /\ i = 4 => TiedAfter = break_by_common_games(TiedBefore, PoolGames, 0)
                  /\ (i = 5 /\ Cardinality(TiedBefore) > 1) =>
                        TiedAfter = BestConference(TiedBefore)
                  /\ i = 6 => (Cardinality(TiedAfter) = 1 /\ TiedAfter \subseteq TiedBefore)]_vars

\* The four-team cycle pool went through all six steps: teams 1, 2, 3 were
\* still tied until the random pick, which left team 1.
C23_Witness ==
    /\ CycleScenario
    /\ pool_pc = "winner"
    /\ pool.tied_teams = {1}
    /\ BestOverall(pool.teams) = {1, 2, 3}
    /\ BestDivision({1, 2, 3}) = {1, 2, 3}
    /\ break_by_head_to_head({1, 2, 3}, PoolGames) = {1, 2, 3}
    /\ break_by_common_games({1, 2, 3}, PoolGames, 0) = {1, 2, 3}
    /\ BestConference({1, 2, 3}) = {1, 2, 3}

WildcardOrder ==
    <<"w_overall", "w_division_ties", "w_sweep", "w_conference", "w_common_games",
      "w_pick_two", "w_head_to_head", "w_conference2", "w_common_games2", "w_random", "w_rank">>
CriterionSteps ==
    {DivisionOrder[i] : i \in 1 .. 6} \cup {WildcardOrder[i] : i \in 1 .. 10}

\* C24: every criterion step of a Division cascade or of a rank iteration of
\* a Wildcard pool that starts with a non-empty tied set returns normally and
\* leaves a non-empty subset of that tied set.
C24_TiedSetShrinks ==
    [][(PoolStarted /\ pool_pc \in CriterionSteps /\ TiedBefore # {}) =>
          /\ pool_pc' # "panicked"
          /\ TiedAfter # {}
          /\ TiedAfter \subseteq TiedBefore]_vars

\* The first rank iteration of the Wildcard pool {1, 2, 3, 4} started with
\* all four teams on the same overall percentage and came down to team 3
\* alone.
C24_Witness ==
    /\ WildcardPool
    /\ pool.teams = {1, 2, 3, 4}
    /\ pool_iter = 0
    /\ pool_pc = "w_rank"
    /\ BestOverall(pool.teams) = pool.teams
    /\ pool.tied_teams = {3}

\* Head-to-head games of team t among the tied set: the pool's games whose
\* two teams are both tied and one of which is t.
HeadToHeadGames(t, tied) ==
    {g \in DOMAIN PoolGames :
        /\ PoolGames[g].home_team \in tied
        /\ PoolGames[g].away_team \in tied
        /\ t \in {PoolGames[g].home_team, PoolGames[g].away_team}}
WonGame(t, g) ==
    \/ PoolGames[g].home_team = t /\ PoolGames[g].game_result = HomeWin
    \/ PoolGames[g].away_team = t /\ PoolGames[g].game_result = AwayWin
LostGame(t, g) ==
    \/ PoolGames[g].home_team = t /\ PoolGames[g].game_result = AwayWin
    \/ PoolGames[g].away_team = t /\ PoolGames[g].game_result = HomeWin
Sweepers(tied) ==
    {t \in tied : /\ HeadToHeadGames(t, tied) # {}
                  /\ \A g \in HeadToHeadGames(t, tied) : WonGame(t, g)}
SweptTeams(tied) ==
    {t \in tied : /\ HeadToHeadGames(t, tied) # {}
                  /\ \A g \in HeadToHeadGames(t, tied) : LostGame(t, g)}
SweepStep == WildcardPool /\ pool_pc = "w_sweep" /\ Cardinality(TiedBefore) > 2

\* C25: the head-to-head sweep step of a Wildcard iteration, applied to more
\* than two tied teams, leaves a team that won all its head-to-head games
\* alone when there is one, and otherwise removes every team that lost all
\* its head-to-head games.
C25_HeadToHeadSweep ==
    [][SweepStep =>
          IF Sweepers(TiedBefore) # {}
          THEN \E t \in Sweepers(TiedBefore) : TiedAfter = {t}
          ELSE TiedAfter = TiedBefore \ SweptTeams(TiedBefore)]_vars

\* The sweep step had teams 1, 3, 4 tied, team 1 having lost its only
\* head-to-head game (to team 3, which tied with team 4), and left all three.
SweptTeamKept ==
    /\ WildcardPool
    /\ pool_pc = "w_conference"
    /\ pool.tied_teams = {1, 3, 4}
    /\ Sweepers({1, 3, 4}) = {}
    /\ SweptTeams({1, 3, 4}) = {1}

\* Every team that team t has played, at home or away.
FullOpponents(t) ==
    {PoolGames[g].away_team : g \in {h \in DOMAIN PoolGames : PoolGames[h].home_team = t}}
    \cup
    {PoolGames[g].home_team : g \in {h \in DOMAIN PoolGames : PoolGames[h].away_team = t}}
OpponentsOfAll(tied) == {x \in TeamIds : \A t \in tied : x \in FullOpponents(t)}
GamesAgainst(t, opponents) ==
    {g \in DOMAIN PoolGames :
        \/ PoolGames[g].home_team = t /\ PoolGames[g].away_team \in opponents
        \/ PoolGames[g].away_team = t /\ PoolGames[g].home_team \in opponents}
RecordAgainst(t, opponents) ==
    <<Cardinality({g \in GamesAgainst(t, opponents) : WonGame(t, g)}),
      Cardinality({g \in GamesAgainst(t, opponents) : LostGame(t, g)}),
      Cardinality({g \in GamesAgainst(t, opponents) : PoolGames[g].game_result = Tie})>>
CommonPercent(t, tied) ==
    LET record == RecordAgainst(t, OpponentsOfAll(tied))
    IN  IF record = <<0, 0, 0>> THEN 0
        ELSE (1000 * (2 * record[1] + record[3])) \div (2 * (record[1] + record[2] + record[3]))
BestCommon(tied) == {t \in tied : \A u \in tied : CommonPercent(u, tied) <= CommonPercent(t, tied)}
TotalCommonGames(tied) ==
    Cardinality(UNION {GamesAgainst(t, OpponentsOfAll(tied)) : t \in tied})
MinGames == IF pool.pool_type = Division THEN 0 ELSE 4
CommonGamesStep ==
    /\ PoolStarted
    /\ \/ pool_pc \in {"common_games", "w_common_games2"} /\ Cardinality(TiedBefore) > 1
       \/ pool_pc = "w_common_games" /\ Cardinality(TiedBefore) > 2
\* records of break_by_common_games after its second loop
CommonRecords(tied) ==
    CommonGamesRecords([records |-> [t \in tied |-> <<0, 0, 0>>], total_common_games |-> 0],
                       tied, CommonOpponents(tied, PoolGames), PoolGames,
                       DOMAIN PoolGames).records

\* C26: when the common-games step is applied to more than one tied team, its
\* common_opponents are exactly the teams every tied team has played, none of
\* them tied; the record it builds for a tied team counts exactly that team's
\* games against them; and when there are more than min_games such games the
\* tied set after the step is the set of tied teams with the best percentage
\* over that record.
C26_CommonGames ==
    [][CommonGamesStep =>
          /\ CommonOpponents(TiedBefore, PoolGames) = OpponentsOfAll(TiedBefore)
          /\ OpponentsOfAll(TiedBefore) \cap TiedBefore = {}
          /\ \A t \in TiedBefore :
                CommonRecords(TiedBefore)[t] = RecordAgainst(t, OpponentsOfAll(TiedBefore))
          /\ TotalCommonGames(TiedBefore) > MinGames => TiedAfter = BestCommon(TiedBefore)]_vars

\* The Division pool {1, 2}: both teams level on overall and division
\* percentage and in their own game, the common opponent is team 3, whom
\* team 1 beat and team 2 did not; the step left team 1.
C26_Witness ==
    /\ DivisionPool
    /\ pool.teams = {1, 2}
    /\ pool_pc = "conference"
    /\ BestOverall({1, 2}) = {1, 2}
    /\ BestDivision({1, 2}) = {1, 2}
    /\ HeadToHeadGames(1, {1, 2}) # {}
    /\ OpponentsOfAll({1, 2}) = {3}
    /\ FullOpponents(1) = {2, 3, 4}
    /\ CommonPercent(1, {1, 2}) = 1000
    /\ CommonPercent(2, {1, 2}) = 500
    /\ pool.tied_teams = {1}

\* The same in a Wildcard iteration: teams 3 and 4 played five games against
\* their common opponent 1, more than the four that wildcard mode asks for.
ManyCommonGamesDecided ==
    /\ WildcardPool
    /\ pool.teams = {3, 4}
    /\ pool_iter = 0
    /\ pool_pc = "w_random"
    /\ BestOverall({3, 4}) = {3, 4}
    /\ TotalCommonGames({3, 4}) = 5
    /\ pool.tied_teams = {3}

\* C27: the common-games step applied to tied teams that have no more than
\* min_games games against their common opponents (0 in a Division pool, 4
\* in a Wildcard pool), none at all included, returns normally and leaves the
\* tied set as it is.
C27_FewCommonGamesSkipped ==
    [][(CommonGamesStep /\ TotalCommonGames(TiedBefore) <= MinGames) =>
          /\ pool_pc' # "panicked"
          /\ TiedAfter = TiedBefore]_vars

\* A Wildcard iteration passed the step with teams 3 and 4 still tied: they
\* have four games against their common opponent 1, with different records.
C27_Witness ==
    /\ WildcardPool
    /\ pool.teams = {3, 4}
    /\ pool_iter = 0
    /\ pool_pc = "w_random"
    /\ pool.tied_teams = {3, 4}
    /\ OpponentsOfAll({3, 4}) = {1}
    /\ TotalCommonGames({3, 4}) = 4
    /\ CommonPercent(3, {3, 4}) > CommonPercent(4, {3, 4})

\* A Division pool passed the step with its teams 1 and 2 tied and without
\* any common opponent.
NoCommonOpponentSkipped ==
    /\ DivisionPool
    /\ pool.teams = {1, 2}
    /\ pool_pc = "conference"
    /\ pool.tied_teams = {1, 2}
    /\ OpponentsOfAll({1, 2}) = {}

HeadToHeadRecord(t, tied) ==
    <<Cardinality({g \in HeadToHeadGames(t, tied) : WonGame(t, g)}),
      Cardinality({g \in HeadToHeadGames(t, tied) : LostGame(t, g)}),
      Cardinality({g \in HeadToHeadGames(t, tied) : PoolGames[g].game_result = Tie})>>
HeadToHeadPercent(t, tied) ==
    LET record == HeadToHeadRecord(t, tied)
    IN  IF record = <<0, 0, 0>> THEN 0
        ELSE (1000 * (2 * record[1] + record[3])) \div (2 * (record[1] + record[2] + record[3]))
BestHeadToHead(tied) ==
    {t \in tied : \A u \in tied : HeadToHeadPercent(u, tied) <= HeadToHeadPercent(t, tied)}
HeadToHeadStep ==
    /\ PoolStarted
    /\ pool_pc \in {"head_to_head", "w_head_to_head"}
    /\ Cardinality(TiedBefore) > 1

\* C28: the head-to-head step applied to more than one tied team builds each
\* team's record from the games between two tied teams only, and leaves the
\* tied teams with the best percentage over that record, a team without such
\* a game counting as 0; without any such game the tied set stays as it is.
C28_HeadToHead ==
    [][HeadToHeadStep =>
          /\ \A t \in TiedBefore :
                HeadToHeadRecords([u \in TiedBefore |-> <<0, 0, 0>>], TiedBefore, PoolGames,
                                  DOMAIN PoolGames)[t] = HeadToHeadRecord(t, TiedBefore)
          /\ TiedAfter = BestHeadToHead(TiedBefore)
          /\ (\A t \in TiedBefore : HeadToHeadGames(t, TiedBefore) = {}) =>
                TiedAfter = TiedBefore]_vars

\* The Division pool {1, 2}: teams 1 and 2 level on overall and division
\* percentage, team 1 beat team 2 and lost to team 3, which is not tied; the
\* step left team 1.
C28_Witness ==
    /\ DivisionPool
    /\ pool.teams = {1, 2}
    /\ pool_pc = "common_games"
    /\ BestDivision(BestOverall({1, 2})) = {1, 2}
    /\ HeadToHeadRecord(1, {1, 2}) = <<1, 0, 0>>
    /\ 3 \in FullOpponents(1)
    /\ OverallPercent(1) = 500
    /\ pool.tied_teams = {1}

PercentStepKind ==
    IF pool_pc \in {"overall", "w_overall"} THEN "overall"
    ELSE IF pool_pc = "division" THEN "division"
    ELSE "conference"
PercentStep ==
    /\ PoolStarted
    /\ \/ /\ pool_pc \in {"overall", "division", "conference", "w_overall", "w_conference2"}
          /\ Cardinality(TiedBefore) > 1
       \/ pool_pc = "w_conference" /\ Cardinality(TiedBefore) > 2
BestPercent(tied, kind) ==
    IF kind = "overall" THEN BestOverall(tied)
    ELSE IF kind = "division" THEN BestDivision(tied)
    ELSE BestConference(tied)

\* C29: a percentage step (overall, division or conference) applied to more
\* than one tied team leaves exactly the tied teams whose percentage of that
\* kind is the maximum over the tied set.
C29_PercentStepKeepsMax ==
    [][PercentStep => TiedAfter = BestPercent(TiedBefore, PercentStepKind)]_vars

\* The first conference step of a Wildcard iteration had teams 1, 3, 4 tied
\* on overall percentage with conference percentages 0, 750, 500 and left
\* team 3.
C29_Witness ==
    /\ WildcardPool
    /\ pool.teams = {1, 3, 4}
    /\ pool_iter = 0
    /\ pool_pc = "w_common_games"
    /\ BestOverall({1, 3, 4}) = {1, 3, 4}
    /\ ConferencePercent(1) = 0
    /\ ConferencePercent(3) = 750
    /\ ConferencePercent(4) = 500
    /\ pool.tied_teams = {3}

DivisionOf(t) == teams[t].division
DivisionsIn(tied) == {DivisionOf(t) : t \in tied}
TiedOf(d, tied) == {t \in tied : DivisionOf(t) = d}
\* The teams the division-mode resolver can return for the tied set: those
\* left by its five criteria, one of which the random pick draws.
DivisionModeResults(tied) ==
    LET after_percent == BestDivision(BestOverall(tied))
        after_head_to_head == BestHeadToHead(after_percent)
        after_common == IF TotalCommonGames(after_head_to_head) > 0
                        THEN BestCommon(after_head_to_head) ELSE after_head_to_head
    IN  BestConference(after_common)
DivisionTiesStep ==
    WildcardPool /\ pool_pc = "w_division_ties" /\ Cardinality(TiedBefore) > 2

\* C30: the embedded division ties step of a Wildcard iteration, applied to
\* more than two tied teams, leaves exactly one team of every division that
\* has a tied team, a team the division-mode resolver can return for the tied
\* teams of that division; a tied set with at most one team per division
\* stays as it is; the pool's team set and ranking stay as they are.
C30_EmbeddedDivisionTies ==
    [][DivisionTiesStep =>
          /\ pool_pc' # "panicked"
          /\ TiedAfter \subseteq TiedBefore
          /\ \A d \in DivisionsIn(TiedBefore) :
                /\ Cardinality(TiedOf(d, TiedAfter)) = 1
                /\ TiedOf(d, TiedAfter) \subseteq DivisionModeResults(TiedOf(d, TiedBefore))
          /\ (\A d \in DivisionsIn(TiedBefore) : Cardinality(TiedOf(d, TiedBefore)) = 1) =>
                TiedAfter = TiedBefore
          /\ pool.teams' = pool.teams
          /\ pool.ranking' = pool.ranking
          /\ pool.winner' = pool.winner]_vars

\* The first iteration of the Wildcard pool {1, 2, 3, 4} had all four teams
\* tied on overall percentage; of the division rivals 1 and 2 the step kept
\* team 1, which has the better division percentage, next to teams 3 and 4.
C30_Witness ==
    /\ WildcardPool
    /\ pool.teams = {1, 2, 3, 4}
    /\ pool_iter = 0
    /\ pool_pc = "w_sweep"
    /\ BestOverall(pool.teams) = pool.teams
    /\ DivisionOf(1) = DivisionOf(2)
    /\ DivisionPercent(1) > DivisionPercent(2)
    /\ pool.tied_teams = {1, 3, 4}
    /\ pool.ranking = Some(<<>>)

\* C31: the tied set a Division pool brings to its random pick is a function
\* of the pool's team set, the standings and the game results alone; when it
\* is a single team, that team is the tied set after the pick and the winner
\* returned, whichever draw the pick makes, so two evaluations on the same
\* inputs return the same winner.
C31_OnlyRandomPickIsRandom ==
    DivisionPool =>
        /\ pool_pc = "random" => pool.tied_teams = DivisionModeResults(pool.teams)
        /\ Cardinality(DivisionModeResults(pool.teams)) = 1 =>
              /\ pool_pc = "winner" => pool.tied_teams = DivisionModeResults(pool.teams)
              /\ pool_pc = "done" => {Unwrap(pool.winner)} = DivisionModeResults(pool.teams)

\* The pool {1, 2, 3} returned team 3, the only team its five criteria left:
\* two teams shared the best overall percentage.
C31_Witness ==
    /\ DivisionPool
    /\ pool.teams = {1, 2, 3}
    /\ pool_pc = "done"
    /\ Cardinality(BestOverall(pool.teams)) = 2
    /\ DivisionModeResults(pool.teams) = {3}
    /\ pool.winner = Some(3)

Ranked == Range(Ranking)

\* C32: while and after a Wildcard pool of at least three teams is evaluated,
\* the ranking is non-increasing in overall percentage and no ranked team
\* has a lower overall percentage than a team of the pool that is not
\* ranked; the winner of a Division pool has the best overall percentage of
\* the pool's teams.
C32_RankingFollowsOverallPercent ==
    /\ (WildcardPool /\ Cardinality(pool.teams) >= 3) =>
          /\ pool_pc # "panicked"
          /\ \A i \in 1 .. Len(Ranking), j \in 1 .. Len(Ranking) :
                i < j => OverallPercent(Ranking[i]) >= OverallPercent(Ranking[j])
          /\ \A r \in Ranked, u \in pool.teams \ Ranked :
                OverallPercent(r) >= OverallPercent(u)
          /\ pool_pc = "done" => Len(Ranking) = 3
    /\ (DivisionPool /\ pool_pc = "done") =>
          \A u \in pool.teams : OverallPercent(Unwrap(pool.winner)) >= OverallPercent(u)

\* The Wildcard pool {1, 2, 3, 4} was ranked 1, 2, 4: team 1 has a better
\* overall percentage than team 2, team 2 a better one than team 4, and the
\* unranked team 3 has that of team 4.
C32_Witness ==
    /\ WildcardPool
    /\ pool.teams = {1, 2, 3, 4}
    /\ pool_pc = "done"
    /\ Ranking = <<1, 2, 4>>
    /\ OverallPercent(1) > OverallPercent(2)
    /\ OverallPercent(2) > OverallPercent(4)
    /\ OverallPercent(3) = OverallPercent(4)

\* A Division pool returned a team with the best overall percentage, which
\* the other team of the pool does not have.
DivisionWinnerIsBest ==
    /\ DivisionPool
    /\ pool.teams = {1, 2}
    /\ pool_pc = "done"
    /\ pool.winner = Some(2)
    /\ OverallPercent(2) > OverallPercent(1)

RECURSIVE SumOver(_, _)
SumOver(S, f) ==
    IF S = {} THEN 0
    ELSE LET x == CHOOSE y \in S : TRUE
         IN  f[x] + SumOver(S \ {x}, f)
DivisionWinnerSum(scenario) ==
    SumOver(TeamIds, [t \in TeamIds |-> overall_results[Lookup(scenario, t)].division_winner])
WildcardTeamSum(scenario) ==
    SumOver(TeamIds, [t \in TeamIds |-> overall_results[Lookup(scenario, t)].wildcard_team])
BatchFinished == IsSome(active_batch) /\ season_pc = "idle" /\ sims_left = 0
EnoughWildcardTeams ==
    \A c \in DOMAIN conference_mapping :
        Cardinality(conference_mapping[c]) - Cardinality({d \in DOMAIN division_mapping :
            division_mapping[d] \cap conference_mapping[c] # {}}) >= 3

\* C33: when the batch of N trials started last for scenario K has run all
\* its trials (no batch has started since), on a league every conference of
\* which keeps at least three teams that win no division, the
\* division_winner counters under K add up to N times the number of
\* divisions and the wildcard_team counters under K to N times three times
\* the number of conferences.
C33_CounterSums ==
    (BatchFinished /\ EnoughWildcardTeams) =>
        /\ DivisionWinnerSum(ActiveScenario) =
               Unwrap(active_batch).sims * Cardinality(DOMAIN division_mapping)
        /\ WildcardTeamSum(ActiveScenario) =
               Unwrap(active_batch).sims * 3 * Cardinality(DOMAIN conference_mapping)
====
